---------------------------- MODULE Spec2Model ----------------------------
(***************************************************************************)
(* VLX_Robot: the broadcast hub and its display connections                *)
(* (internal/websocket), the EventSub webhook handler and subscription     *)
(* reconciliation (internal/twitch), and the YouTube live-chat polling     *)
(* engine (internal/youtube) over the PostgreSQL store (internal/database).*)
(***************************************************************************)
EXTENDS Integers, Sequences, FiniteSets, TLC

(***************************************************************************)
(* Bounds of the model.                                                    *)
(***************************************************************************)
\* number of display connections that ever connect
NumClients == 2
\* capacity of a connection's send channel (256 in ServeWs, scaled down)
SendCap == 2
\* number of payloads the hub accepts in one behaviour
MaxBroadcasts == 3
\* number of connection failures (read errors, failed writes, failed pings)
\* in one behaviour
MaxFaults == 1
\* number of LiveChatMessages.List calls in one behaviour
MaxFetches == 3
\* number of process restarts in one behaviour
MaxCrashes == 1
\* number of pollChat calls (ticks served) in one behaviour
MaxPolls == 4

Clients == 1..NumClients
Producers == {"webhook", "poller", "chat"}
\* the producers whose sends race in the hub specification
HubProducers == {"webhook", "poller"}
\* payloads are opaque byte strings to the hub; NoPayload marks a producer
\* that is not inside a send on hub.Broadcast
NoPayload == [type |-> "none"]
\* the k-th payload handed to the hub
TestPayload(k) == [type |-> "test_payload", seq |-> k]
WriteResults == {"ok", "nextWriter", "close"}

VARIABLES
    clients,     \* Hub.clients: the registered set
    send,        \* Client.send: buffered content of each connection's channel
    closeCount,  \* how many times close(client.send) was executed
    hubPanic,    \* the hub goroutine panicked (double close, send on closed)
    pending,     \* producers blocked in `hub.Broadcast <- payload`
    rp,          \* position of each connection's readPump
    wp,          \* position of each connection's writePump
    wire,        \* payloads written to each connection's socket, in order
    accepted,    \* history: payloads received by Hub.Run from h.Broadcast
    regAt,       \* history: Len(accepted) when the connection was registered
    got,         \* history: payloads enqueued on each connection's channel
    evicted,     \* history: connections removed by the broadcast loop
    faults,      \* history: number of connection failures so far
    writer       \* writePump's locals: what it wrote into w, and its n

hubVars == <<clients, send, closeCount, hubPanic, pending, rp, wp, wire,
             accepted, regAt, got, evicted, faults, writer>>

VARIABLES
    ytDb,        \* the youtube_state row of the monitored channel
    ytPc,        \* position of the goroutine started by youtube.Client.Start
    ytResp,      \* response of the last LiveChatMessages.List call
    ytIdx,       \* index of the next item processMessages looks at
    ytRet,       \* what the last finished pollChat returned
    ytFetches,   \* history: number of List calls issued
    crashes,     \* history: number of process restarts
    ytCrashTok,  \* history: persisted next_page_token at the last restart
    ytFirstTok,  \* history: page of the first answered fetch since the start
    ytPolls,     \* history: number of pollChat calls made by startPolling
    ytEnded      \* the live chat the row names has ended at YouTube

pollVars == <<ytDb, ytPc, ytResp, ytIdx, ytRet, ytFetches, crashes,
              ytCrashTok, ytFirstTok, ytPolls, ytEnded>>

VARIABLES
    subsDb,      \* the twitch_subscriptions table
    remoteSubs,  \* the EventSub subscriptions that exist at Twitch
    nextSubId,   \* the identifier Twitch gives to the next subscription
    subLast,     \* history: what the last subscribeTo(Raid)Event call met
    whPc,        \* position of the webhook handler goroutine
    whReq,       \* the request HandleEventSubCallback is serving / served
    whResp,      \* the response written for whReq
    whCount      \* history: number of requests served

twVars == <<subsDb, remoteSubs, nextSubId, subLast, whPc, whReq, whResp,
            whCount>>

VARIABLES
    cooldownDuration, \* ChatClient.cooldownDuration in seconds, 0 before NewChatClient
    lastUsage,   \* ChatClient.lastUsage: command name -> time of last use
    now,         \* the clock read by time.Now and time.Since, in seconds
    chatPc,      \* position of the goroutine that runs the IRC callbacks
    chatMsg,     \* the message handlePrivateMessage is working on
    chatLog,     \* history: the invocations that reached the cooldown check
    chatCount,   \* history: number of chat messages handled so far
    sayTokens,   \* tokens in the bucket of ChatClient.sayLimiter
    said         \* history: number of replies sent with c.client.Say

chatVars == <<cooldownDuration, lastUsage, now, chatPc, chatMsg, chatLog,
              chatCount, sayTokens, said>>

VARIABLES
    permLast     \* the last permission check made: its inputs and its answer

VARIABLES
    credsDb,     \* rows of the table twitch_credentials
    utcNow,      \* time.Now().UTC() as read by the token maintenance, in seconds
    tokenGen,    \* number of token pairs Twitch has issued on refresh
    credLast,    \* history: the last run of maintainUserToken and its outcome
    credCalls    \* history: number of runs of maintainUserToken so far

credVars == <<credsDb, utcNow, tokenGen, credLast, credCalls>>

VARIABLES
    fsFiles,     \* the directory entries below the media root
    commands,    \* the AudioCommandsMap that ScanAudioCommands returned
    scanned      \* whether main has called ScanAudioCommands

scanVars == <<fsFiles, commands, scanned>>

auxVars == <<chatVars, permLast, credVars, scanVars>>

vars == <<hubVars, pollVars, twVars, auxVars>>

(***************************************************************************)
(* Hub.Run, one select case per operator.                                  *)
(***************************************************************************)
\* variant: the default branch is taken one payload too late
QueueFullLate(c) == Len(send[c]) > SendCap

\* `select { case client.send <- message: ... default: ... }` takes the
\* default branch exactly when the buffer is full
QueueFull(c) == Len(send[c]) >= SendCap

\* variant: the payload is put at the head of the buffer
EnqueueFront(q, m) == <<m>> \o q

\* a channel send appends at the tail of the buffer
Enqueue(q, m) == Append(q, m)

\* variant: the channel is left open
CloseSendSkipped(cc, c) == cc

\* close(client.send): closing a closed channel panics
CloseSend(cc, c) == [cc EXCEPT ![c] = cc[c] + 1]

\* variant: one full queue makes the loop give up on every connection
EvictedAll(cs) == IF \E c \in cs : QueueFull(c) THEN cs ELSE {}

\* the clients the broadcast loop evicts (default branch)
Evicted(cs) == {c \in cs : QueueFull(c)}

\* h.clients[client] = true
Register(cs, c) == cs \cup {c}

\* variant: the entry is left in the map
UnregisterKept(cs, gone) == cs

\* delete(h.clients, client)
Unregister(cs, gone) == cs \ gone

\* variant: the membership check is missing
UnregisterAlways(c) == TRUE

\* case client := <-h.unregister: only a registered client is removed/closed
UnregisterApplies(c) == c \in clients

HubInit ==
    /\ clients = {}
    /\ send = [c \in Clients |-> <<>>]
    /\ closeCount = [c \in Clients |-> 0]
    /\ hubPanic = FALSE
    /\ pending = [p \in Producers |-> NoPayload]
    /\ rp = [c \in Clients |-> "none"]
    /\ wp = [c \in Clients |-> "none"]
    /\ wire = [c \in Clients |-> <<>>]
    /\ accepted = <<>>
    /\ regAt = [c \in Clients |-> 0]
    /\ got = [c \in Clients |-> <<>>]
    /\ evicted = {}
    /\ faults = 0
    /\ writer = [c \in Clients |-> [buf |-> <<>>, n |-> 0]]

\* ServeWs: a fresh Client is built, handed to h.register (case 1 of Run
\* adds it to the set), then both pumps are started.  Connections are
\* numbered in the order they arrive.
ServeWs(c) ==
    /\ ~hubPanic
    /\ rp[c] = "none"
    /\ \A d \in Clients : d < c => rp[d] # "none"
    /\ clients' = Register(clients, c)
    /\ regAt' = [regAt EXCEPT ![c] = Len(accepted)]
    /\ rp' = [rp EXCEPT ![c] = "reading"]
    /\ wp' = [wp EXCEPT ![c] = "running"]
    /\ UNCHANGED <<send, closeCount, hubPanic, pending, wire, accepted, got, evicted, faults>>
    /\ UNCHANGED <<writer, pollVars, twVars, auxVars>>

\* ServeWs up to `client.hub.register <- client`, where it blocks until Run
\* receives the client
ServeWsSend(c) ==
    /\ rp[c] = "none"
    /\ \A d \in Clients : d < c => rp[d] # "none"
    /\ rp' = [rp EXCEPT ![c] = "registering"]
    /\ UNCHANGED <<clients, send, closeCount, hubPanic, pending, wp, wire,
                   accepted, regAt, got, evicted, faults>>
    /\ UNCHANGED <<writer, pollVars, twVars, auxVars>>

\* case client := <-h.register of Run; ServeWs then starts both pumps
HubRegister(c) ==
    /\ ~hubPanic
    /\ rp[c] = "registering"
    /\ clients' = Register(clients, c)
    /\ regAt' = [regAt EXCEPT ![c] = Len(accepted)]
    /\ rp' = [rp EXCEPT ![c] = "reading"]
    /\ wp' = [wp EXCEPT ![c] = "running"]
    /\ UNCHANGED <<send, closeCount, hubPanic, pending, wire, accepted, got,
                   evicted, faults>>
    /\ UNCHANGED <<writer, pollVars, twVars, auxVars>>

\* readPump: ReadMessage returns an error (peer closed, pong deadline missed,
\* or the connection was closed by writePump); the deferred function then
\* blocks in `c.hub.unregister <- c`
ReadError(c) ==
    /\ rp[c] = "reading"
    /\ faults < MaxFaults
    /\ faults' = faults + 1
    /\ rp' = [rp EXCEPT ![c] = "unregistering"]
    /\ UNCHANGED <<clients, send, closeCount, hubPanic, pending, wp, wire,
                   accepted, regAt, got, evicted>>
    /\ UNCHANGED <<writer, pollVars, twVars, auxVars>>

\* variant: readPump returns without sending itself to h.unregister
ReadClosedReturns(c) ==
    /\ rp[c] = "reading"
    /\ wp[c] = "done"
    /\ rp' = [rp EXCEPT ![c] = "closed"]
    /\ UNCHANGED <<clients, send, closeCount, hubPanic, pending, wp, wire,
                   accepted, regAt, got, evicted, faults>>
    /\ UNCHANGED <<writer, pollVars, twVars, auxVars>>

\* readPump: writePump has returned and its deferred function has closed
\* the connection, so ReadMessage returns an error; the deferred function
\* of readPump then blocks in `c.hub.unregister <- c`
ReadClosed(c) ==
    /\ rp[c] = "reading"
    /\ wp[c] = "done"
    /\ rp' = [rp EXCEPT ![c] = "unregistering"]
    /\ UNCHANGED <<clients, send, closeCount, hubPanic, pending, wp, wire,
                   accepted, regAt, got, evicted, faults>>
    /\ UNCHANGED <<writer, pollVars, twVars, auxVars>>

\* case client := <-h.unregister of Run, then readPump closes the connection
HubUnregister(c) ==
    /\ ~hubPanic
    /\ rp[c] = "unregistering"
    /\ rp' = [rp EXCEPT ![c] = "closed"]
    /\ IF UnregisterApplies(c)
         THEN /\ clients' = Unregister(clients, {c})
              /\ closeCount' = CloseSend(closeCount, c)
              /\ hubPanic' = (closeCount[c] >= 1)
         ELSE UNCHANGED <<clients, closeCount, hubPanic>>
    /\ UNCHANGED <<send, pending, wp, wire, accepted, regAt, got, evicted, faults>>
    /\ UNCHANGED <<writer, pollVars, twVars, auxVars>>

\* number of payloads handed to hub.Broadcast so far
Submitted ==
    Len(accepted) + Cardinality({q \in Producers : pending[q] # NoPayload})

\* a producer (webhook handler, polling engine, chat bot) reaches
\* `hub.Broadcast <- payload` and blocks until Run receives it
SubmitUpTo(pr, max) ==
    /\ pending[pr] = NoPayload
    /\ Submitted < max
    /\ pending' = [pending EXCEPT ![pr] = TestPayload(Submitted + 1)]
    /\ UNCHANGED <<clients, send, closeCount, hubPanic, rp, wp, wire,
                   accepted, regAt, got, evicted, faults>>
    /\ UNCHANGED <<writer, pollVars, twVars, auxVars>>

Submit(pr) == SubmitUpTo(pr, MaxBroadcasts)

\* variant: the send to a client's channel has no default branch, so Run
\* waits while a registered client's buffer is full
HubBroadcastBlocking(pr) ==
    /\ ~hubPanic
    /\ pending[pr] # NoPayload
    /\ \A c \in clients : Len(send[c]) < SendCap
    /\ send' = [c \in Clients |->
                  IF c \in clients THEN Append(send[c], pending[pr])
                                   ELSE send[c]]
    /\ got' = [c \in Clients |->
                  IF c \in clients THEN Append(got[c], pending[pr])
                                   ELSE got[c]]
    /\ accepted' = Append(accepted, pending[pr])
    /\ pending' = [pending EXCEPT ![pr] = NoPayload]
    /\ UNCHANGED <<clients, evicted, closeCount, hubPanic>>
    /\ UNCHANGED <<rp, wp, wire, regAt, faults, writer>>

\* case message := <-h.Broadcast of Run: the whole loop over h.clients
HubBroadcast(pr) ==
    /\ ~hubPanic
    /\ pending[pr] # NoPayload
    /\ LET m == pending[pr]
           ev == Evicted(clients)
           keep == clients \ ev
       IN /\ send' = [c \in Clients |->
                        IF c \in keep THEN Enqueue(send[c], m) ELSE send[c]]
          /\ got' = [c \in Clients |->
                        IF c \in keep THEN Append(got[c], m) ELSE got[c]]
          /\ clients' = Unregister(clients, ev)
          /\ evicted' = evicted \cup ev
          /\ closeCount' = [c \in Clients |->
                        IF c \in ev THEN CloseSend(closeCount, c)[c]
                                    ELSE closeCount[c]]
          /\ hubPanic' = \E c \in clients : closeCount[c] >= 1
          /\ accepted' = Append(accepted, m)
          /\ pending' = [pending EXCEPT ![pr] = NoPayload]
    /\ UNCHANGED <<rp, wp, wire, regAt, faults, writer>>

(***************************************************************************)
(* Client.writePump                                                        *)
(***************************************************************************)
\* the frame written for one wake-up: the received message followed by the
\* n := len(c.send) messages buffered behind it, written into the same writer
Frame(q) == q

\* case message, ok := <-c.send with ok: one message is received, the
\* n := len(c.send) messages behind it are received and written with it.
\* res = "ok": the frame reaches the socket; "nextWriter": NextWriter fails
\* after the first receive; "close": w.Close fails after all receives.  A
\* failure ends the pump, whose deferred function closes the connection.
WriteFrame(c, res) ==
    /\ wp[c] = "running"
    /\ send[c] # <<>>
    /\ send' = [send EXCEPT ![c] =
                  IF res = "nextWriter" THEN Tail(send[c]) ELSE <<>>]
    /\ IF res = "ok"
         THEN /\ wire' = [wire EXCEPT ![c] = wire[c] \o Frame(send[c])]
              /\ UNCHANGED <<wp, faults>>
         ELSE /\ faults < MaxFaults
              /\ faults' = faults + 1
              /\ wp' = [wp EXCEPT ![c] = "done"]
              /\ UNCHANGED wire
    /\ UNCHANGED <<clients, closeCount, hubPanic, pending, rp, accepted,
                   regAt, got, evicted>>
    /\ UNCHANGED <<writer, pollVars, twVars, auxVars>>

\* case message, ok := <-c.send with ok, after the deferred function of
\* readPump has closed the connection (c.conn.Close follows its unregister):
\* the message is received, NextWriter fails and the pump returns.  A pump
\* that wakes up between the unregister and the Close still writes its frame.
WriteOnClosed(c) ==
    /\ wp[c] = "running"
    /\ rp[c] = "closed"
    /\ send[c] # <<>>
    /\ send' = [send EXCEPT ![c] = Tail(send[c])]
    /\ wp' = [wp EXCEPT ![c] = "done"]
    /\ UNCHANGED <<clients, closeCount, hubPanic, pending, rp, wire, accepted,
                   regAt, got, evicted, faults>>
    /\ UNCHANGED <<writer, pollVars, twVars, auxVars>>

\* variant: the close message is written as soon as the channel is closed,
\* whatever is still buffered
WriteCloseEarly(c) ==
    /\ wp[c] = "running"
    /\ closeCount[c] >= 1
    /\ wp' = [wp EXCEPT ![c] = "done"]
    /\ UNCHANGED <<clients, send, closeCount, hubPanic, pending, rp, wire,
                   accepted, regAt, got, evicted, faults>>
    /\ UNCHANGED <<writer, pollVars, twVars, auxVars>>

\* case message, ok := <-c.send with !ok: the channel is closed and drained;
\* a close message is written and the pump returns
WriteClose(c) ==
    /\ wp[c] = "running"
    /\ send[c] = <<>>
    /\ closeCount[c] >= 1
    /\ wp' = [wp EXCEPT ![c] = "done"]
    /\ UNCHANGED <<clients, send, closeCount, hubPanic, pending, rp, wire,
                   accepted, regAt, got, evicted, faults>>
    /\ UNCHANGED <<writer, pollVars, twVars, auxVars>>

\* case <-ticker.C: the ping write fails and the pump returns
PingFail(c) ==
    /\ wp[c] = "running"
    /\ faults < MaxFaults
    /\ faults' = faults + 1
    /\ wp' = [wp EXCEPT ![c] = "done"]
    /\ UNCHANGED <<clients, send, closeCount, hubPanic, pending, rp, wire,
                   accepted, regAt, got, evicted>>
    /\ UNCHANGED <<writer, pollVars, twVars, auxVars>>

(***************************************************************************)
(* Client.writePump, one receive at a time                                 *)
(***************************************************************************)
\* the pump specification accepts enough payloads to fill a queue behind a
\* message writePump has received, and one more to evict the connection
PumpBroadcasts == SendCap + 2

\* variant: only the message received by the select is written
FlushedFirstOnly(buf) == <<Head(buf)>>

\* w.Close: everything written into w reaches the socket as one frame
Flushed(buf) == Frame(buf)

\* case message, ok := <-c.send with ok, NextWriter and w.Write(message).
\* NextWriter fails on a transport failure, or on a connection that the
\* deferred function of readPump has closed.
PumpReceive(c, res) ==
    /\ wp[c] = "running"
    /\ send[c] # <<>>
    /\ send' = [send EXCEPT ![c] = Tail(send[c])]
    /\ IF res = "ok"
         THEN /\ wp' = [wp EXCEPT ![c] = "written"]
              /\ writer' = [writer EXCEPT ![c] =
                               [buf |-> <<Head(send[c])>>, n |-> 0]]
              /\ UNCHANGED faults
         ELSE /\ rp[c] = "closed" \/ faults < MaxFaults
              /\ faults' = IF rp[c] = "closed" THEN faults ELSE faults + 1
              /\ wp' = [wp EXCEPT ![c] = "done"]
              /\ UNCHANGED writer
    /\ UNCHANGED <<clients, closeCount, hubPanic, pending, rp, wire, accepted,
                   regAt, got, evicted>>
    /\ UNCHANGED <<pollVars, twVars, auxVars>>

\* n := len(c.send)
PumpLen(c) ==
    /\ wp[c] = "written"
    /\ wp' = [wp EXCEPT ![c] = "coalescing"]
    /\ writer' = [writer EXCEPT ![c].n = Len(send[c])]
    /\ UNCHANGED <<clients, send, closeCount, hubPanic, pending, rp, wire,
                   accepted, regAt, got, evicted, faults>>
    /\ UNCHANGED <<pollVars, twVars, auxVars>>

\* one pass of `for i := 0; i < n; i++ { w.Write(<-c.send) }`; a receive
\* from the closed and empty channel would yield nil, which Write ignores
PumpCoalesce(c) ==
    /\ wp[c] = "coalescing"
    /\ writer[c].n > 0
    /\ IF send[c] # <<>>
         THEN /\ send' = [send EXCEPT ![c] = Tail(send[c])]
              /\ writer' = [writer EXCEPT
                               ![c].buf = Append(writer[c].buf, Head(send[c])),
                               ![c].n = writer[c].n - 1]
         ELSE /\ closeCount[c] >= 1
              /\ writer' = [writer EXCEPT ![c].n = writer[c].n - 1]
              /\ UNCHANGED send
    /\ UNCHANGED <<clients, closeCount, hubPanic, pending, rp, wp, wire,
                   accepted, regAt, got, evicted, faults>>
    /\ UNCHANGED <<pollVars, twVars, auxVars>>

\* w.Close after the loop: the frame reaches the socket, or Close fails and
\* the pump returns
PumpFlush(c, res) ==
    /\ wp[c] = "coalescing"
    /\ writer[c].n = 0
    /\ IF res = "ok"
         THEN /\ wire' = [wire EXCEPT ![c] = wire[c] \o Flushed(writer[c].buf)]
              /\ wp' = [wp EXCEPT ![c] = "running"]
              /\ UNCHANGED faults
         ELSE /\ rp[c] = "closed" \/ faults < MaxFaults
              /\ faults' = IF rp[c] = "closed" THEN faults ELSE faults + 1
              /\ wp' = [wp EXCEPT ![c] = "done"]
              /\ UNCHANGED wire
    /\ UNCHANGED <<clients, send, closeCount, hubPanic, pending, rp, accepted,
                   regAt, got, evicted, writer>>
    /\ UNCHANGED <<pollVars, twVars, auxVars>>

(***************************************************************************)
(* Properties of the hub                                                   *)
(***************************************************************************)
Last(q) == q[Len(q)]

\* the step is one pass of the broadcast case of Hub.Run
BroadcastStep == Len(accepted') = Len(accepted) + 1

\* C1 (hub isolation): in a broadcast pass that evicts a saturated
\* connection, every other registered connection whose queue has room stays
\* registered, keeps what it had queued and is handed the payload of this
\* pass; nothing it received is lost.
C1_Isolation ==
    [][(BroadcastStep /\ \E s \in clients : s \notin clients')
        => \A c \in clients :
             Len(send[c]) < SendCap
               => /\ c \in clients'
                  /\ send'[c] = Append(send[c], Last(accepted'))
                  /\ Len(got'[c]) = Len(accepted') - regAt[c]]_vars

\* C1 witness: one connection was evicted while another one, registered
\* before the eviction, is still registered and holds the payload of the
\* evicting pass
C1_Witness ==
    \E s \in evicted, c \in clients :
        /\ s # c
        /\ regAt[c] = 0
        /\ Len(accepted) = SendCap + 1
        /\ Len(got[s]) = SendCap
        /\ got[c] = accepted

\* C2 (per-connection FIFO): the content of a registered connection's queue
\* is the tail of the payloads accepted since its registration, in acceptance
\* order, and everything accepted since its registration was enqueued once.
C2_Fifo ==
    \A c \in clients :
        /\ got[c] = SubSeq(accepted, regAt[c] + 1, Len(accepted))
        /\ Len(send[c]) <= Len(got[c])
        /\ send[c] = SubSeq(got[c], Len(got[c]) - Len(send[c]) + 1, Len(got[c]))

\* C2 witness: both producers raced, the hub accepted their payloads in the
\* order opposite to their submission, and a registered connection holds them
C2_Witness ==
    \E c \in clients :
        /\ Len(send[c]) = 2
        /\ send[c][1].seq > send[c][2].seq

\* C3 (unregister idempotence): an unregister processed for a connection that
\* is absent from the set changes neither the set nor any queue, and no send
\* channel is ever closed twice (the hub never panics).
C3_UnregisterIdempotent ==
    [][/\ \A c \in Clients : closeCount'[c] <= 1
       /\ ~hubPanic'
       /\ \A c \in Clients :
            (rp[c] = "unregistering" /\ rp'[c] = "closed" /\ c \notin clients)
              => UNCHANGED <<clients, send, closeCount>>]_vars

\* C3 witness: the read loop's unregister was processed after the broadcast
\* loop had already evicted the connection
C3_Witness ==
    \E c \in evicted : rp[c] = "closed" /\ closeCount[c] = 1

\* C4 (back-pressure eviction): a broadcast pass that finds a registered
\* connection's queue full removes it from the set and closes its queue in
\* that pass; every other registered connection is handed the payload, and
\* the producer's send completes normally.
C4_Eviction ==
    [][BroadcastStep
        => /\ \A c \in clients :
                IF Len(send[c]) >= SendCap
                  THEN /\ c \notin clients'
                       /\ closeCount[c] = 0 /\ closeCount'[c] = 1
                       /\ send'[c] = send[c]
                  ELSE /\ c \in clients'
                       /\ send'[c] = Append(send[c], Last(accepted'))
                       /\ closeCount'[c] = 0
           /\ ~hubPanic'
           /\ \E pr \in Producers :
                /\ pending[pr] = Last(accepted')
                /\ pending'[pr] = NoPayload]_vars

\* C4 witness: a connection was evicted with a full queue while its read
\* loop was still running, and another connection received the payload
C4_Witness ==
    \E s \in evicted, c \in clients :
        /\ Len(send[s]) = SendCap
        /\ rp[s] = "reading"
        /\ closeCount[s] = 1
        /\ send[c] # <<>> /\ Last(send[c]) = Last(accepted)

\* C5 (registration boundary): a connection holds nothing when its register
\* is processed and becomes a member; what it is handed are exactly payloads
\* accepted after that point; while it is a member with room each accepted
\* payload is enqueued unchanged; once its unregister is processed it is not
\* a member, and a non-member is handed nothing.
C5_RegistrationBoundary ==
    [][\A c \in Clients :
        /\ (rp[c] = "none" /\ rp'[c] # "none")
             => (c \in clients' /\ send'[c] = <<>> /\ got'[c] = <<>>)
        /\ regAt'[c] + Len(got'[c]) <= Len(accepted')
        /\ got'[c] = SubSeq(accepted', regAt'[c] + 1, regAt'[c] + Len(got'[c]))
        /\ (BroadcastStep /\ c \in clients /\ Len(send[c]) < SendCap)
             => send'[c] = Append(send[c], Last(accepted'))
        /\ (rp[c] = "unregistering" /\ rp'[c] = "closed") => c \notin clients'
        /\ c \notin clients => (got'[c] = got[c] /\ Len(send'[c]) <= Len(send[c]))
      ]_vars

\* C5 witness: a connection registered after a first broadcast, received the
\* second, was unregistered, and a third broadcast went by without it
C5_Witness ==
    \E c \in Clients :
        /\ regAt[c] = 1
        /\ Len(got[c]) = 1
        /\ rp[c] = "closed"
        /\ c \notin evicted
        /\ Len(accepted) = 3

\* C27 (failures end in unregistration and stay local): a step of a
\* connection's pumps or its unregistration changes neither the registration
\* nor the queue of another connection; and a connection whose readPump has
\* met an error, or whose writePump has returned (failed write, failed ping,
\* closed channel), is eventually not registered.
C27_FailureUnregisters ==
    /\ [][\A c \in Clients :
            (rp'[c] # rp[c] \/ wp'[c] # wp[c])
              => \A d \in Clients \ {c} :
                   /\ (d \in clients') <=> (d \in clients)
                   /\ send'[d] = send[d]]_vars
    /\ \A c \in Clients :
         (rp[c] = "unregistering" \/ wp[c] = "done") ~> (c \notin clients)

\* C27 witness: the writePump of connection 1 ended on a failure with a
\* payload still in its queue, the connection was unregistered, and
\* connection 2 is registered with its payloads queued
C27_Witness ==
    /\ wp[1] = "done"
    /\ rp[1] = "closed"
    /\ send[1] # <<>>
    /\ 1 \notin clients
    /\ evicted = {}
    /\ 2 \in clients
    /\ Len(send[2]) = 2

\* C28 (the hub never waits for a consumer): a payload a producer is
\* blocked on is eventually received by Run, a client blocked in its send to
\* h.register is eventually registered, and a client blocked in its send to
\* h.unregister is eventually served, whatever the state of the queues and
\* pumps of the connections.
C28_AlwaysAccepts ==
    /\ \A pr \in HubProducers : \A k \in 1..MaxBroadcasts :
         (pending[pr] = TestPayload(k))
           ~> (\E i \in 1..Len(accepted) : accepted[i] = TestPayload(k))
    /\ \A c \in Clients :
         /\ (rp[c] = "registering") ~> (rp[c] # "registering")
         /\ (rp[c] = "unregistering") ~> (rp[c] = "closed")

\* C28 witness: three payloads were accepted although connection 1 was
\* evicted with a full queue and the peer of connection 2 is dead
C28_Witness ==
    /\ Len(accepted) = 3
    /\ \A pr \in Producers : pending[pr] = NoPayload
    /\ evicted = {1}
    /\ Len(send[1]) = SendCap
    /\ 2 \in clients
    /\ wp[2] = "done"

\* C34 (one payload per wire message): every message the write loop writes
\* to the socket of a connection is exactly one payload as it was passed to
\* Broadcast, also when several payloads were waiting in the queue.
C34_OnePayloadPerMessage ==
    [][\A c \in Clients :
         wire'[c] # wire[c]
           => \E i \in 1..Len(accepted) :
                wire'[c] = Append(wire[c], accepted[i])]_vars

\* C38 (hub invariant): a connection that has been registered is in the
\* registered set exactly as long as its send channel has not been closed;
\* the broadcast loop hands a payload only to connections whose channel is
\* open, the hub never panics on a closed channel, and no channel ever holds
\* more payloads than its capacity.
C38_HubInvariant ==
    /\ [](\A c \in Clients :
            /\ rp[c] \notin {"none", "registering"}
                 => ((c \in clients) <=> (closeCount[c] = 0))
            /\ Len(send[c]) <= SendCap)
    /\ [][/\ \A c \in Clients : got'[c] # got[c] => closeCount[c] = 0
          /\ ~hubPanic']_vars

\* C38 witness: one connection was closed by an eviction with its queue at
\* capacity, one was closed by its unregister, each exactly once, and both
\* are out of the set while the broadcasts went on
C38_Witness ==
    /\ clients = {}
    /\ evicted = {1}
    /\ Len(send[1]) = SendCap
    /\ closeCount = [c \in Clients |-> 1]
    /\ rp[2] = "closed"
    /\ Len(accepted) = 3

\* C39 (a removed connection winds down): a writePump that ends without a
\* failed write on the transport ends on the closed channel, after the
\* connection left the set and after everything that was queued for it has
\* been written; the unregister of a connection the broadcast loop evicted
\* changes nothing of the hub; and once a registered connection has left the
\* set both its loops end.
C39_RemovedWindsDown ==
    /\ [][\A c \in Clients :
            /\ (wp[c] = "running" /\ wp'[c] = "done" /\ faults' = faults)
                 => /\ closeCount[c] >= 1
                    /\ c \notin clients
                    /\ send[c] = <<>>
                    /\ wire[c] = got[c]
            /\ (rp[c] = "unregistering" /\ rp'[c] = "closed"
                  /\ c \in evicted)
                 => UNCHANGED <<clients, send, closeCount, hubPanic>>]_vars
    /\ \A c \in Clients :
         (rp[c] \notin {"none", "registering"} /\ c \notin clients)
           ~> (wp[c] = "done" /\ rp[c] = "closed")

\* C39 as it holds: the same, with the draining of the queue claimed only of
\* a writePump whose connection readPump has not yet closed (the connection
\* was evicted and its read loop is still running or waits for the hub); a
\* connection removed by its unregister is closed by readPump, and its
\* writePump ends on its next wake-up without writing.
C39_OpenConnectionDrains ==
    /\ [][\A c \in Clients :
            /\ (wp[c] = "running" /\ wp'[c] = "done" /\ faults' = faults
                  /\ rp[c] # "closed")
                 => /\ closeCount[c] >= 1
                    /\ c \in evicted
                    /\ send[c] = <<>>
                    /\ wire[c] = got[c]
            /\ (wp[c] = "running" /\ wp'[c] = "done" /\ faults' = faults
                  /\ rp[c] = "closed")
                 => /\ closeCount[c] >= 1
                    /\ wire'[c] = wire[c]
            /\ (rp[c] = "unregistering" /\ rp'[c] = "closed"
                  /\ c \in evicted)
                 => UNCHANGED <<clients, send, closeCount, hubPanic>>]_vars
    /\ \A c \in Clients :
         (rp[c] \notin {"none", "registering"} /\ c \notin clients)
           ~> (wp[c] = "done" /\ rp[c] = "closed")

\* C39 witness: connection 1 was evicted with a full queue; its writePump
\* wrote the queued payloads and ended on the closed channel, and its
\* readPump ended after its unregister was taken
C39_Witness ==
    /\ evicted = {1}
    /\ faults = 0
    /\ accepted # <<>>
    /\ send[1] = <<>>
    /\ Len(got[1]) = SendCap
    /\ wire[1] = got[1]
    /\ wp[1] = "done"
    /\ rp[1] = "closed"
    /\ closeCount[1] = 1

\* C40 (the write loop loses and repeats nothing): while a connection's
\* writePump has not ended, what it has written to the socket, followed by
\* what it holds in its writer and by what is still queued, is exactly what
\* was enqueued for the connection, in enqueue order; the loop never counts
\* more messages to coalesce than the channel holds; and a frame that reaches
\* the socket appends everything the writer holds, once.
C40_WrittenOnceInOrder ==
    /\ [](\A c \in Clients :
            /\ wp[c] = "running" => wire[c] \o send[c] = got[c]
            /\ wp[c] \in {"written", "coalescing"}
                 => /\ wire[c] \o writer[c].buf \o send[c] = got[c]
                    /\ writer[c].n <= Len(send[c]))
    /\ [][\A c \in Clients :
            (wp[c] = "coalescing" /\ wp'[c] = "running")
              => /\ wire'[c] = wire[c] \o writer[c].buf
                 /\ wire'[c] \o send'[c] = got'[c]]_vars

\* C40 witness: the hub evicted connection 1 and closed its channel while
\* its writePump was between the receive of a message and the end of the
\* coalescing loop (the full queue behind the received message was enqueued
\* before the evicting pass); the one frame it wrote holds the message and
\* the whole queue, and the pump has sent its close message
C40_Witness ==
    /\ evicted = {1}
    /\ faults = 0
    /\ regAt[1] = 0
    /\ Len(accepted) = PumpBroadcasts
    /\ Len(got[1]) = SendCap + 1
    /\ Len(writer[1].buf) = SendCap + 1
    /\ wire[1] = got[1]
    /\ wp[1] = "done"

(***************************************************************************)
(* internal/database: the youtube_state table                              *)
(***************************************************************************)
\* sql.NullString; a page token is the number k of the page it points at and
\* 0 stands for the empty string
NullString(str, valid) == [String |-> str, Valid |-> valid]
NullStr == NullString(0, FALSE)

\* the table holds no row for the channel
NoRow == [present |-> FALSE]

\* GetYouTubeState: the row, or sql.ErrNoRows
GetYouTubeState(db) == [ErrNoRows |-> ~db.present, state |-> db]

\* UpsertYouTubeState: INSERT ... ON CONFLICT (channel_id) DO UPDATE SET
\* live_chat_id, next_page_token (and updated_at) from the new row
UpsertYouTubeState(db, state) ==
    [present |-> TRUE, LiveChatID |-> state.LiveChatID,
     NextPageToken |-> state.NextPageToken]

(***************************************************************************)
(* The remote live chat, as the YouTube API presents it                    *)
(***************************************************************************)
LiveChat == "chat1"

Viewer == [DisplayName |-> "Ada", IsChatModerator |-> FALSE,
           IsChatOwner |-> FALSE, IsChatSponsor |-> FALSE]
Moderator == [DisplayName |-> "Mod", IsChatModerator |-> TRUE,
              IsChatOwner |-> FALSE, IsChatSponsor |-> FALSE]

SuperChatItem == [kind |-> "superChat", AmountDisplayString |-> "EUR5.00",
                  UserComment |-> "gg", Tier |-> 1, DisplayMessage |-> "",
                  author |-> Viewer]
StickerItem == [kind |-> "superSticker", AmountDisplayString |-> "EUR2.00",
                AltText |-> "wave", DisplayMessage |-> "", author |-> Viewer]
TextItem(msg, who) == [kind |-> "text", DisplayMessage |-> msg, author |-> who]

\* the page of chat items the server returns for page number k (a request
\* without page token gets page 0)
PageItems(k) ==
    IF k = 0 THEN <<SuperChatItem, TextItem("hello", Viewer)>>
    ELSE IF k = 1 THEN <<TextItem("!test", Viewer), StickerItem>>
    ELSE <<TextItem("!vip", Viewer), TextItem("!vip", Moderator),
           TextItem("!nope", Moderator)>>

\* LiveChatMessages.List(liveChatID).PageToken(tok).Do(): the page and the
\* continuation token behind it
ListResponse(k) == [page |-> k, NextPageToken |-> k + 1, Items |-> PageItems(k)]

\* no response is held in memory
NoResp == [page |-> -1]

(***************************************************************************)
(* internal/youtube: command handling of the polling source                *)
(***************************************************************************)
PermissionEveryone == "everyone"
PermissionSubscriber == "subscriber"
PermissionVIP == "vip"

\* the command map handed to youtube.NewClient (built by ScanAudioCommands)
CommandNames == {"test", "vip"}
Commands(name) ==
    IF name = "test"
      THEN [Filename |-> "test.mp3", Permission |-> PermissionEveryone,
            MediaType |-> "audio"]
      ELSE [Filename |-> "vip.mp4", Permission |-> PermissionVIP,
            MediaType |-> "video"]

\* strings.HasPrefix(msg, "!")
HasCommandPrefix(msg) == msg \in {"!test", "!vip", "!nope", "!commands"}

\* strings.ToLower(strings.TrimPrefix(strings.Fields(msg)[0], "!"))
CommandNameOf(msg) ==
    IF msg = "!test" THEN "test"
    ELSE IF msg = "!vip" THEN "vip"
    ELSE IF msg = "!commands" THEN "commands"
    ELSE "nope"

\* the switch on cmdData.Permission in handleCommand
YtHasPerm(author, perm) ==
    IF perm = PermissionEveryone THEN TRUE
    ELSE IF perm = PermissionVIP
      THEN author.IsChatModerator \/ author.IsChatOwner
    ELSE IF perm = PermissionSubscriber
      THEN author.IsChatSponsor \/ author.IsChatModerator \/ author.IsChatOwner
    ELSE FALSE

\* handleCommand: the payload it sends to the hub, or NoPayload
HandleCommand(msg, author) ==
    LET name == CommandNameOf(msg) IN
    IF name \notin CommandNames THEN NoPayload
    ELSE IF ~YtHasPerm(author, Commands(name).Permission) THEN NoPayload
    ELSE [type |-> "sound_command", filename |-> Commands(name).Filename,
          media_type |-> Commands(name).MediaType]

\* variant: only super chats and commands are looked at
ItemPayloadWithoutStickers(item) ==
    IF item.kind = "superChat"
      THEN [type |-> "youtube_super_chat",
            user_name |-> item.author.DisplayName,
            amount_string |-> item.AmountDisplayString,
            message |-> item.UserComment, tier |-> item.Tier]
    ELSE IF item.DisplayMessage # "" /\ HasCommandPrefix(item.DisplayMessage)
      THEN HandleCommand(item.DisplayMessage, item.author)
    ELSE NoPayload

\* one iteration of the loop of processMessages: the payload broadcast for
\* the item, or NoPayload
ItemPayload(item) ==
    IF item.kind = "superChat"
      THEN [type |-> "youtube_super_chat",
            user_name |-> item.author.DisplayName,
            amount_string |-> item.AmountDisplayString,
            message |-> item.UserComment, tier |-> item.Tier]
    ELSE IF item.kind = "superSticker"
      THEN [type |-> "youtube_super_sticker",
            user_name |-> item.author.DisplayName,
            amount_string |-> item.AmountDisplayString,
            sticker_alt |-> item.AltText]
    ELSE IF item.DisplayMessage # "" /\ HasCommandPrefix(item.DisplayMessage)
      THEN HandleCommand(item.DisplayMessage, item.author)
    ELSE NoPayload

(***************************************************************************)
(* internal/youtube: Start, ensureLiveChatID, startPolling, pollChat       *)
(***************************************************************************)
PollInit ==
    /\ ytDb = NoRow
    /\ ytPc = "start"
    /\ ytResp = NoResp
    /\ ytIdx = 1
    /\ ytRet = "none"
    /\ ytFetches = 0
    /\ crashes = 0
    /\ ytCrashTok = -1
    /\ ytFirstTok = -1
    /\ ytPolls = 0
    /\ ytEnded = FALSE

EnsureOutcomes == {"searchErr", "noStream", "videosErr", "noVideo", "noChat",
                   "found"}

\* the row ensureLiveChatID writes once the chat id is known: ChannelID,
\* LiveChatID and UpdatedAt are set, NextPageToken keeps its zero value
ResolvedState == [LiveChatID |-> NullString(LiveChat, TRUE),
                  NextPageToken |-> NullStr]

\* variant: Start goes on to startPolling whatever ensureLiveChatID returned
EnsureLiveChatIDThenPoll(outcome, dbOk) ==
    /\ ytPc = "start"
    /\ ytDb' = IF outcome = "found" /\ dbOk
                 THEN UpsertYouTubeState(ytDb, ResolvedState)
                 ELSE ytDb
    /\ ytPc' = "waiting"
    /\ ytEnded' = IF outcome = "found" THEN FALSE ELSE ytEnded
    /\ UNCHANGED <<ytResp, ytIdx, ytRet, ytFetches, crashes, ytCrashTok,
                   ytFirstTok, ytPolls, hubVars>>
    /\ UNCHANGED <<twVars, auxVars>>

\* Start: ensureLiveChatID, then startPolling unless it returned an error.
\* The outcome "found" is the answer for a broadcast whose chat is active.
EnsureLiveChatID(outcome, dbOk) ==
    /\ ytPc = "start"
    /\ IF outcome = "found" /\ dbOk
         THEN /\ ytDb' = UpsertYouTubeState(ytDb, ResolvedState)
              /\ ytPc' = "waiting"
         ELSE /\ ytPc' = "stopped"
              /\ UNCHANGED ytDb
    /\ ytEnded' = IF outcome = "found" THEN FALSE ELSE ytEnded
    /\ UNCHANGED <<ytResp, ytIdx, ytRet, ytFetches, crashes, ytCrashTok,
                   ytFirstTok, ytPolls, hubVars>>
    /\ UNCHANGED <<twVars, auxVars>>

\* the page the request asks for: the page token is only sent when
\* state.NextPageToken.Valid && state.NextPageToken.String != ""
RequestedPage(state) ==
    IF state.present /\ state.NextPageToken.Valid
                     /\ state.NextPageToken.String # 0
      THEN state.NextPageToken.String
      ELSE 0

\* variant: startPolling leaves its loop when pollChat returns an error
AfterFailedCycleStops == "stopped"

\* startPolling: where the goroutine is after pollChat returned an error
\* (the error is logged and the loop waits for the next tick)
AfterFailedCycle == "waiting"

\* variant: pollChat goes on with whatever live_chat_id the row holds
LiveChatIDMissingIgnored(state) == FALSE

\* pollChat: if !state.LiveChatID.Valid
LiveChatIDMissing(state) == ~state.LiveChatID.Valid

\* variant: every tick starts pollChat in a goroutine of its own
TickReadyAnytime == ytPc \in {"waiting", "fetched", "processing"}

\* startPolling: the loop receives from ticker.C only between two calls of
\* pollChat, which it makes itself
TickReady == ytPc = "waiting"

\* variant: a failed List call makes pollChat forget the page token
PollFetchForgetsToken(dbOk, apiOk) ==
    /\ TickReady
    /\ ytFetches < MaxFetches
    /\ ytPolls < MaxPolls
    /\ apiOk => ~ytEnded
    /\ ytPolls' = ytPolls + 1
    /\ LET got1 == GetYouTubeState(ytDb)
           state == got1.state IN
       IF ~dbOk \/ got1.ErrNoRows
         THEN /\ ytRet' = "err: failed to get state"
              /\ ytPc' = AfterFailedCycle
              /\ UNCHANGED <<ytResp, ytFetches, ytFirstTok, ytDb>>
       ELSE IF LiveChatIDMissing(state)
         THEN /\ ytRet' = "err: live_chat_id is missing"
              /\ ytPc' = AfterFailedCycle
              /\ UNCHANGED <<ytResp, ytFetches, ytFirstTok, ytDb>>
       ELSE /\ ytFetches' = ytFetches + 1
            /\ IF apiOk
                 THEN /\ ytResp' = ListResponse(RequestedPage(state))
                      /\ ytFirstTok' = IF ytFirstTok = -1
                                         THEN RequestedPage(state)
                                         ELSE ytFirstTok
                      /\ ytPc' = "fetched"
                      /\ ytRet' = "running"
                      /\ UNCHANGED ytDb
                 ELSE /\ ytRet' = IF ytEnded
                                    THEN "err: API call failed: liveChatEnded"
                                    ELSE "err: API call failed"
                      /\ ytPc' = AfterFailedCycle
                      /\ ytDb' = [ytDb EXCEPT !.NextPageToken = NullStr]
                      /\ UNCHANGED <<ytResp, ytFirstTok>>
    /\ ytIdx' = 1
    /\ UNCHANGED <<crashes, ytCrashTok, ytEnded, hubVars>>
    /\ UNCHANGED <<twVars, auxVars>>

\* a tick of startPolling: pollChat up to and including call.Do().  A List
\* call for a chat that has ended is answered with an error.
PollFetch(dbOk, apiOk) ==
    /\ TickReady
    /\ ytFetches < MaxFetches
    /\ ytPolls < MaxPolls
    /\ apiOk => ~ytEnded
    /\ ytPolls' = ytPolls + 1
    /\ LET got1 == GetYouTubeState(ytDb)
           state == got1.state IN
       IF ~dbOk \/ got1.ErrNoRows
         THEN /\ ytRet' = "err: failed to get state"
              /\ ytPc' = AfterFailedCycle
              /\ UNCHANGED <<ytResp, ytFetches, ytFirstTok>>
       ELSE IF LiveChatIDMissing(state)
         THEN /\ ytRet' = "err: live_chat_id is missing"
              /\ ytPc' = AfterFailedCycle
              /\ UNCHANGED <<ytResp, ytFetches, ytFirstTok>>
       ELSE /\ ytFetches' = ytFetches + 1
            /\ IF apiOk
                 THEN /\ ytResp' = ListResponse(RequestedPage(state))
                      /\ ytFirstTok' = IF ytFirstTok = -1
                                         THEN RequestedPage(state)
                                         ELSE ytFirstTok
                      /\ ytPc' = "fetched"
                      /\ ytRet' = "running"
                 ELSE /\ ytRet' = IF ytEnded
                                    THEN "err: API call failed: liveChatEnded"
                                    ELSE "err: API call failed"
                      /\ ytPc' = AfterFailedCycle
                      /\ UNCHANGED <<ytResp, ytFirstTok>>
    /\ ytIdx' = 1
    /\ UNCHANGED <<ytDb, crashes, ytCrashTok, ytEnded, hubVars>>
    /\ UNCHANGED <<twVars, auxVars>>

\* pollChat step 4: whether the cycle goes on to processing after the save
\* attempt (a failed save is only logged)
ProceedsAfterPersist(dbOk) == TRUE

\* pollChat step 4: the new row is upserted; the items follow
PollPersist(dbOk) ==
    /\ ytPc = "fetched"
    /\ ytDb' = IF dbOk
                 THEN UpsertYouTubeState(ytDb,
                        [LiveChatID |-> ytDb.LiveChatID,
                         NextPageToken |->
                            NullString(ytResp.NextPageToken, TRUE)])
                 ELSE ytDb
    /\ IF ProceedsAfterPersist(dbOk)
         THEN /\ ytPc' = "processing"
              /\ UNCHANGED ytRet
         ELSE /\ ytPc' = "waiting"
              /\ ytRet' = "err: failed to save state"
    /\ UNCHANGED <<ytResp, ytIdx, ytFetches, crashes, ytCrashTok, ytFirstTok,
                   ytPolls, ytEnded, hubVars>>
    /\ UNCHANGED <<twVars, auxVars>>

\* pollChat step 5: one iteration of processMessages; a payload is handed to
\* hub.Broadcast, where the goroutine blocks until the hub has received it
PollProcess ==
    /\ ytPc = "processing"
    /\ pending["poller"] = NoPayload
    /\ IF ytIdx <= Len(ytResp.Items)
         THEN /\ pending' = [pending EXCEPT
                               !["poller"] = ItemPayload(ytResp.Items[ytIdx])]
              /\ ytIdx' = ytIdx + 1
              /\ UNCHANGED <<ytPc, ytRet>>
         ELSE /\ ytPc' = "waiting"
              /\ ytRet' = "nil"
              /\ UNCHANGED <<pending, ytIdx>>
    /\ UNCHANGED <<ytDb, ytResp, ytFetches, crashes, ytCrashTok, ytFirstTok,
                   ytPolls, ytEnded, clients, send, closeCount, hubPanic, rp,
                   wp, wire, accepted, regAt, got, evicted, faults,
                   writer>>
    /\ UNCHANGED <<twVars, auxVars>>

\* the process dies and is started again: everything in memory is gone, the
\* database row stays, and main runs Start once more
Restart ==
    /\ crashes < MaxCrashes
    /\ ytPc # "start"
    /\ crashes' = crashes + 1
    /\ ytCrashTok' = RequestedPage(ytDb)
    /\ ytFirstTok' = -1
    /\ ytPc' = "start"
    /\ ytResp' = NoResp
    /\ ytIdx' = 1
    /\ ytRet' = "none"
    /\ pending' = [p \in Producers |-> NoPayload]
    /\ UNCHANGED <<ytDb, ytFetches, ytPolls, ytEnded, clients, send,
                   closeCount, hubPanic, rp, wp, wire, accepted, regAt, got,
                   evicted, faults,
                   writer>>
    /\ UNCHANGED <<twVars, auxVars>>

\* the broadcast ends and with it the live chat the row names
LiveChatEnds ==
    /\ ytPc \in {"waiting", "fetched", "processing"}
    /\ ~ytEnded
    /\ ytEnded' = TRUE
    /\ UNCHANGED <<ytDb, ytPc, ytResp, ytIdx, ytRet, ytFetches, crashes,
                   ytCrashTok, ytFirstTok, ytPolls, hubVars>>
    /\ UNCHANGED <<twVars, auxVars>>

\* between two cycles the row of the channel is deleted, or its live_chat_id
\* is set to NULL, by someone else who writes to the database
SessionLost(kind) ==
    /\ ytPc = "waiting"
    /\ ytDb.present
    /\ ytDb.LiveChatID.Valid
    /\ ytDb' = IF kind = "deleted" THEN NoRow
                ELSE [ytDb EXCEPT !.LiveChatID = NullStr]
    /\ UNCHANGED <<ytPc, ytResp, ytIdx, ytRet, ytFetches, crashes,
                   ytCrashTok, ytFirstTok, ytPolls, ytEnded, hubVars>>
    /\ UNCHANGED <<twVars, auxVars>>

\* the hub receives the payload the polling goroutine is blocked on
PollerAccepted ==
    HubBroadcast("poller") /\ UNCHANGED <<pollVars, twVars, auxVars>>

PollNext ==
    \/ \E o \in EnsureOutcomes, dbOk \in BOOLEAN : EnsureLiveChatID(o, dbOk)
    \/ \E dbOk \in BOOLEAN, apiOk \in BOOLEAN : PollFetch(dbOk, apiOk)
    \/ \E dbOk \in BOOLEAN : PollPersist(dbOk)
    \/ PollProcess
    \/ PollerAccepted
    \/ Restart
    \/ LiveChatEnds

\* the polling engine over a table that others write to as well
PollLossNext ==
    \/ PollNext
    \/ \E kind \in {"deleted", "nulled"} : SessionLost(kind)

(***************************************************************************)
(* Properties of the polling engine                                        *)
(***************************************************************************)
\* C7 (cursor monotonicity): when a pollChat call has returned nil, the
\* persisted continuation token is the token the fetch of that call returned.
C7_CursorMonotonic ==
    (ytPc = "waiting" /\ ytRet = "nil")
      => ytDb.NextPageToken = NullString(ytResp.NextPageToken, TRUE)

\* C8 (persist-before-process): once an item of the fetched page has been
\* handed to processing, the persisted cursor holds the token the server
\* returned with that page, not the one the page was fetched with.
C8_PersistBeforeProcess ==
    (ytPc = "processing" /\ ytIdx > 1)
      => /\ ytDb.NextPageToken = NullString(ytResp.NextPageToken, TRUE)
         /\ RequestedPage(ytDb) # ytResp.page

\* C9 (at-most-once across restarts): the first page fetched after a restart
\* is the page the continuation token persisted at the restart points at.
C9_ResumeFromPersisted ==
    (crashes > 0 /\ ytCrashTok >= 1 /\ ytFirstTok # -1)
      => ytFirstTok = ytCrashTok

\* the class of a chat item: the type of the payload it is to produce,
\* "none" for an item that produces nothing
ItemClass(item) ==
    IF item.kind = "superChat" THEN "youtube_super_chat"
    ELSE IF item.kind = "superSticker" THEN "youtube_super_sticker"
    ELSE IF /\ HasCommandPrefix(item.DisplayMessage)
            /\ CommandNameOf(item.DisplayMessage) \in CommandNames
            /\ YtHasPerm(item.author,
                         Commands(CommandNameOf(item.DisplayMessage)).Permission)
      THEN "sound_command"
    ELSE "none"

\* the payload is the one expected for the item
PayloadFits(p, item) ==
    /\ p.type = ItemClass(item)
    /\ p.type \in {"youtube_super_chat", "youtube_super_sticker"}
         => p.amount_string = item.AmountDisplayString
    /\ p.type = "sound_command"
         => p.filename = Commands(CommandNameOf(item.DisplayMessage)).Filename

\* C14 (page classification): while a fetched page is processed its items
\* are taken one at a time in order; an item hands a payload to the hub
\* exactly when it is a super chat (youtube_super_chat with its amount
\* string), a super sticker (youtube_super_sticker) or a plain text that
\* starts with the prefix and names a registered command its author may
\* use (sound_command), and no payload otherwise; the hub receives each
\* payload once, in that order, and the page is finished only after its
\* last item.
C14_PageClassification ==
    [][crashes' = crashes =>
        /\ ytIdx' # ytIdx
             => \/ ytIdx' = 1 /\ ytPc = "waiting"
                \/ /\ ytPc = "processing" /\ ytIdx' = ytIdx + 1
                   /\ ytIdx <= Len(ytResp.Items)
                   /\ pending["poller"] = NoPayload
                   /\ IF ItemClass(ytResp.Items[ytIdx]) = "none"
                        THEN pending'["poller"] = NoPayload
                        ELSE PayloadFits(pending'["poller"],
                                         ytResp.Items[ytIdx])
        /\ pending'["poller"] # pending["poller"]
             => \/ ytIdx' = ytIdx + 1
                \/ /\ accepted' = Append(accepted, pending["poller"])
                   /\ pending'["poller"] = NoPayload
        /\ accepted' # accepted
             => /\ accepted' = Append(accepted, pending["poller"])
                /\ pending'["poller"] = NoPayload
        /\ (ytPc = "processing" /\ ytPc' # "processing")
             => /\ ytIdx = Len(ytResp.Items) + 1
                /\ pending["poller"] = NoPayload]_vars

\* C14 witness: the page with the text "!test" and a super sticker has been
\* processed to its end; the hub received a sound_command and then a
\* youtube_super_sticker for it
C14_Witness ==
    /\ ytPc = "waiting"
    /\ ytRet = "nil"
    /\ ytResp.Items = <<TextItem("!test", Viewer), StickerItem>>
    /\ Len(accepted) >= 2
    /\ accepted[Len(accepted) - 1].type = "sound_command"
    /\ accepted[Len(accepted)].type = "youtube_super_sticker"
    /\ accepted[Len(accepted)].amount_string = "EUR2.00"

\* the row holds the chat id ensureLiveChatID resolved
SessionPersisted(db) ==
    db.present /\ db.LiveChatID = NullString(LiveChat, TRUE)

\* C22 (no session, no polling): Start goes on to the polling loop only when
\* the row written by this start holds the resolved live chat id; otherwise
\* the goroutine has ended, and from then on, until the process is started
\* again, no pollChat runs, no List call is issued, the row is not written
\* and the poller hands nothing to the hub.
C22_NoSessionNoPolling ==
    [][crashes' = crashes =>
        /\ (ytPc = "start" /\ ytPc' # "start")
             => /\ ytPc' \in {"waiting", "stopped"}
                /\ ytPc' = "waiting" => SessionPersisted(ytDb')
                /\ ytPc' = "stopped" => ytDb' = ytDb
                /\ UNCHANGED <<ytFetches, ytRet, pending, accepted>>
        /\ ytPc = "stopped"
             => /\ ytPc' = "stopped"
                /\ UNCHANGED <<ytFetches, ytRet, ytResp, ytDb, pending,
                               accepted>>]_vars

\* C22 witness: the process polled and broadcast, was started again, and
\* the resolution of the second start failed: the row still holds the chat
\* id of the first start, yet the poller has stopped
C22_Witness ==
    /\ ytPc = "stopped"
    /\ crashes = 1
    /\ SessionPersisted(ytDb)
    /\ ytFetches > 0
    /\ accepted # <<>>

\* what pollChat returns when a cycle fails
CycleErrors ==
    {"err: failed to get state", "err: live_chat_id is missing",
     "err: API call failed", "err: API call failed: liveChatEnded"}

\* C23 (the engine keeps ticking): a pollChat call that returns an error
\* leaves the goroutine in the loop of startPolling, and, the ticker firing
\* again, pollChat is called again unless the process is started anew (or
\* the number of calls the model follows is used up).
C23_KeepsTicking ==
    /\ [][(ytPolls' # ytPolls /\ ytRet' \in CycleErrors)
            => ytPc' = "waiting"]_vars
    /\ \A n \in 0..(MaxPolls - 1) : \A c \in 0..MaxCrashes :
         (/\ ytRet \in CycleErrors
          /\ ytPolls = n /\ crashes = c
          /\ ytFetches < MaxFetches)
           ~> (ytPolls > n \/ crashes > c)

\* C23 witness: without a restart, two pollChat calls were made and only
\* the second, now at its answered fetch, issued a List call: the first
\* failed and the loop went on
C23_Witness ==
    /\ crashes = 0
    /\ ytPc = "fetched"
    /\ ytPolls = 2
    /\ ytFetches = 1

C25_FetchGated ==
    [][ytFetches' # ytFetches => ytPc = "acquired"]_vars

\* C30 (no overlapping polls): a pollChat begins only when the one before it
\* has returned, with every payload it broadcast received by the hub; while
\* processing waits for the hub no other pollChat begins.
C30_NoOverlap ==
    [][ytPolls' # ytPolls =>
         /\ ytPc = "waiting"
         /\ ytRet # "running"
         /\ pending["poller"] = NoPayload]_vars

\* C30 witness: the second pollChat is inside processMessages, blocked in its
\* send to the hub
C30_Witness ==
    /\ ytPolls = 2
    /\ ytPc = "processing"
    /\ ytRet = "running"
    /\ pending["poller"] # NoPayload

\* C33 (polling without a session): a pollChat that begins while the table
\* holds no row for the channel, or a row without a valid live chat id,
\* returns an error, issues no List call, leaves the row as it is and hands
\* nothing to the hub; the goroutine waits for the next tick and nothing
\* else of the process is touched.
C33_NoSessionFailsCycle ==
    [][(ytPolls' # ytPolls /\ ~(ytDb.present /\ ytDb.LiveChatID.Valid))
         => /\ ytRet' \in {"err: failed to get state",
                           "err: live_chat_id is missing"}
            /\ ytFetches' = ytFetches
            /\ ytDb' = ytDb
            /\ UNCHANGED <<hubVars, crashes, twVars, auxVars>>
            /\ ytPc' = "waiting"]_vars

\* C33 witness: after a fetch the live chat id of the row was set to NULL
\* and two further cycles failed on it without a fetch
C33_Witness ==
    /\ ytRet = "err: live_chat_id is missing"
    /\ ytDb.present /\ ~ytDb.LiveChatID.Valid
    /\ ytFetches = 1
    /\ ytPolls = 3
    /\ ytPc = "waiting"

\* the errors pollChat returns when the List call failed
FetchErrors == {"err: API call failed", "err: API call failed: liveChatEnded"}

\* C37 (a failed fetch changes nothing): the cycle whose List call fails
\* leaves the row (page token and live chat id) as it is and hands nothing to
\* the hub, nothing changes the row until the next cycle, and the next cycle
\* sends the List call with the page token of that row, the one the failed
\* call was sent with.
C37_FailedFetchRetries ==
    [][crashes' = crashes =>
        /\ (ytFetches' # ytFetches /\ ytRet' \in FetchErrors)
             => /\ ytDb' = ytDb
                /\ UNCHANGED hubVars
                /\ ytPc' = "waiting"
        /\ ytRet \in FetchErrors
             => /\ ytDb' = ytDb
                /\ pending'["poller"] = pending["poller"]
                /\ (ytFetches' # ytFetches /\ ytPc' = "fetched")
                     => ytResp'.page = RequestedPage(ytDb)]_vars

\* C37 witness: three List calls were sent and two pages were returned, so
\* one call failed and the call after it returned the page it had asked for;
\* the only payload the hub got is the super chat of the first page
C37_Witness ==
    /\ ytPolls = 3
    /\ ytFetches = 3
    /\ ytPc = "fetched"
    /\ ytResp.page = 1
    /\ RequestedPage(ytDb) = 1
    /\ crashes = 0
    /\ Len(accepted) = 1
    /\ accepted[1].type = "youtube_super_chat"
    /\ pending["poller"] = NoPayload

(***************************************************************************)
(* internal/database: the twitch_subscriptions table                       *)
(***************************************************************************)
\* GetSubscription: the rows selected for (user, event type)
GetSubscription(db, userID, eventType) ==
    {r \in db : r.UserID = userID /\ r.EventType = eventType}

\* QueryRow(...).Scan: one of the selected rows, or sql.ErrNoRows
ErrNoRows == [ID |-> 0, UserID |-> "", EventType |-> "", Status |-> "ErrNoRows"]
QueryRow(rows) == IF rows = {} THEN {ErrNoRows} ELSE rows

\* CreateSubscription: a plain INSERT.  The id is the key of the table, so a
\* row with the same id is refused.  Whether the schema also refuses a second
\* id for the same (user_id, event_type) is not part of this repository:
\* `unique` stands for either schema.
CreateSubscription(db, sub, unique) ==
    IF \E r \in db : r.ID = sub.ID THEN db
    ELSE IF unique /\ \E r \in db : r.UserID = sub.UserID
                                    /\ r.EventType = sub.EventType THEN db
    ELSE db \cup {sub}

\* DeleteSubscription: DELETE ... WHERE id = $1
DeleteSubscription(db, id) == {r \in db : r.ID # id}

(***************************************************************************)
(* internal/twitch: subscription reconciliation                            *)
(***************************************************************************)
EventSubFollow == "channel.follow"
EventSubSubscribe == "channel.subscribe"
EventSubSubGift == "channel.subscription.gift"
EventSubSubMessage == "channel.subscription.message"
EventSubCheer == "channel.cheer"
EventSubRaid == "channel.raid"

\* the accounts and event types StartMonitoring is run for in this model
Users == {"u1", "u2"}
SubTypes == {EventSubFollow, EventSubRaid}
\* number of subscriptions Twitch creates in one behaviour
MaxSubIds == 2
SubStatuses == {"enabled", "webhook_callback_verification_pending"}

NoCall == [outcome |-> "none"]

\* helix.EventSubCondition of the request built by createSubscription /
\* createRaidSubscription
ConditionFor(userID, eventType) ==
    IF eventType = EventSubRaid
      THEN [BroadcasterUserID |-> "", ModeratorUserID |-> "",
            ToBroadcasterUserID |-> userID, FromBroadcasterUserID |-> ""]
      ELSE [BroadcasterUserID |-> userID,
            ModeratorUserID |-> IF eventType = EventSubFollow THEN userID
                                                              ELSE "",
            ToBroadcasterUserID |-> "", FromBroadcasterUserID |-> ""]

\* variant: a raid subscription is accepted for either side of the raid
MatchesExistingEitherSide(sub, userID, eventType) ==
    IF eventType = EventSubRaid
      THEN \/ sub.Condition.ToBroadcasterUserID = userID
           \/ sub.Condition.FromBroadcasterUserID = userID
      ELSE sub.Condition.BroadcasterUserID = userID

\* fetchExistingSubscription: the subscriptions of the list that the loop
\* accepts for userID
MatchesExisting(sub, userID, eventType) ==
    IF eventType = EventSubRaid
      THEN sub.Condition.ToBroadcasterUserID = userID
      ELSE sub.Condition.BroadcasterUserID = userID

\* Twitch answers 409 when a subscription of that type and condition exists
RemoteConflict(userID, eventType) ==
    \E s \in remoteSubs : /\ s.Type = eventType
                          /\ s.Condition = ConditionFor(userID, eventType)

\* saveSubscriptionToDB: the row built from the helix subscription
RowFor(userID, eventType, sub) ==
    [ID |-> sub.ID, UserID |-> userID, EventType |-> eventType,
     Status |-> sub.Status]

\* subscribeToEvent / subscribeToRaidEvent (EnsureSubscribed): the record
\* check, the remote creation with its 409 recovery, and the save.
\*   api     : "ok" (created), "error" (transport error or status >= 400
\*             other than 409); a 409 is answered when RemoteConflict holds
\*   listOk  : GetEventSubSubscriptions succeeded
\*   missing : the id of a subscription that is not in the list returned
\*             (dropped since the 409, or on a later page), 0 for none
\*   status  : the status Twitch gives a created subscription
\*   dbOk    : the database executes the INSERT
\*   unique  : see CreateSubscription
SubscribeToEvent(userID, eventType, api, listOk, missing, status, dbOk, unique) ==
    /\ \E sub \in QueryRow(GetSubscription(subsDb, userID, eventType)) :
         /\ IF sub.Status = "enabled"
              THEN /\ subLast' = [userID |-> userID, eventType |-> eventType,
                                  outcome |-> "active", remoteID |-> 0,
                                  dbOk |-> dbOk]
                   /\ UNCHANGED <<subsDb, remoteSubs, nextSubId>>
            ELSE IF RemoteConflict(userID, eventType)
              THEN \* 409: fetchExistingSubscription
                   IF listOk /\ \A x \in remoteSubs :
                                  (x.Type = eventType /\ x.ID # missing)
                                    => ~MatchesExisting(x, userID, eventType)
                     THEN /\ subLast' = [userID |-> userID,
                                         eventType |-> eventType,
                                         outcome |-> "notFound",
                                         remoteID |-> 0, dbOk |-> dbOk]
                          /\ UNCHANGED <<subsDb, remoteSubs, nextSubId>>
                   ELSE IF listOk
                     THEN \E s \in {x \in remoteSubs :
                                      /\ x.Type = eventType
                                      /\ x.ID # missing
                                      /\ MatchesExisting(x, userID, eventType)} :
                            /\ subsDb' = IF dbOk
                                 THEN CreateSubscription(subsDb,
                                        RowFor(userID, eventType, s), unique)
                                 ELSE subsDb
                            /\ subLast' = [userID |-> userID,
                                           eventType |-> eventType,
                                           outcome |-> "recovered",
                                           remoteID |-> s.ID, dbOk |-> dbOk]
                            /\ UNCHANGED <<remoteSubs, nextSubId>>
                     ELSE /\ subLast' = [userID |-> userID,
                                         eventType |-> eventType,
                                         outcome |-> "listFailed",
                                         remoteID |-> 0, dbOk |-> dbOk]
                          /\ UNCHANGED <<subsDb, remoteSubs, nextSubId>>
            ELSE IF api = "ok" /\ nextSubId <= MaxSubIds
              THEN LET s == [ID |-> nextSubId, Type |-> eventType,
                             Condition |-> ConditionFor(userID, eventType),
                             Status |-> status]
                   IN /\ remoteSubs' = remoteSubs \cup {s}
                      /\ nextSubId' = nextSubId + 1
                      /\ subsDb' = IF dbOk
                           THEN CreateSubscription(subsDb,
                                  RowFor(userID, eventType, s), unique)
                           ELSE subsDb
                      /\ subLast' = [userID |-> userID, eventType |-> eventType,
                                     outcome |-> "created", remoteID |-> s.ID,
                                     dbOk |-> dbOk]
            ELSE /\ subLast' = [userID |-> userID, eventType |-> eventType,
                                outcome |-> "failed", remoteID |-> 0,
                                dbOk |-> dbOk]
                 /\ UNCHANGED <<subsDb, remoteSubs, nextSubId>>
    /\ UNCHANGED <<whPc, whReq, whResp, whCount, hubVars, pollVars, auxVars>>

\* a raid subscription of the same application that was not made by
\* createRaidSubscription: its condition names the account as the side the
\* raid comes from
ForeignRaidSub(from) ==
    /\ nextSubId <= MaxSubIds
    /\ remoteSubs' = remoteSubs \cup
         {[ID |-> nextSubId, Type |-> EventSubRaid,
           Condition |-> [BroadcasterUserID |-> "", ModeratorUserID |-> "",
                          ToBroadcasterUserID |-> "",
                          FromBroadcasterUserID |-> from],
           Status |-> "enabled"]}
    /\ nextSubId' = nextSubId + 1
    /\ UNCHANGED <<subsDb, subLast, whPc, whReq, whResp, whCount,
                   hubVars, pollVars, auxVars>>

\* Twitch drops a subscription on its side (failed callback verification,
\* expiry, removal through the API by another tool)
RemoteDrop(id) ==
    /\ \E s \in remoteSubs : s.ID = id
    /\ remoteSubs' = {s \in remoteSubs : s.ID # id}
    /\ UNCHANGED <<subsDb, nextSubId, subLast, whPc, whReq, whResp, whCount,
                   hubVars, pollVars, auxVars>>

(***************************************************************************)
(* internal/twitch: the webhook endpoint                                   *)
(***************************************************************************)
\* Header values and bodies are strings, modelled as sequences of
\* characters.  "_" is a blank; "C", "N", "A", "U", "R" each stand for the
\* text of one JSON object; "X" is text that is not JSON.
WebhookSecret == "configured"
MessageIds == {<<"i">>}
Timestamps == {<<"1">>, <<"1", "_">>}
Bodies == {<<"_", "N">>, <<"N">>, <<"A">>, <<"U">>, <<"R">>, <<"C">>, <<"X">>}
MessageTypes == {"webhook_callback_verification", "notification",
                 "revocation", "other"}
\* number of webhook requests served in one behaviour
MaxRequests == 2

\* hmac.New(sha256.New, key) over msg, hex encoded behind "sha256=": two
\* signatures are equal exactly when key and signed bytes are equal
Signature(key, msg) == [prefix |-> "sha256=", key |-> key, msg |-> msg]
\* the Twitch-Eventsub-Message-Signature header is absent
NoSignature == [prefix |-> "", key |-> "", msg |-> <<>>]
\* len(sig) of the header value
SigLen(sig) == IF sig.prefix = "sha256=" THEN 71 ELSE 0
PrefixLen == 7

\* the timestamp Twitch puts in the header of what it signs
SentTimestamp == <<"1">>

\* The requests that reach the endpoint.  signedTs and signedBody record
\* what the signer computed the signature over; readOk is the outcome of
\* io.ReadAll.
\* signed by Twitch with the configured secret, delivered as signed or
\* with timestamp header or body changed on the way
SignedRequests ==
    {[id |-> id, ts |-> ts, body |-> body, type |-> mt, readOk |-> TRUE,
      sig |-> Signature(WebhookSecret, (id \o SentTimestamp) \o sb),
      signedTs |-> SentTimestamp, signedBody |-> sb] :
        id \in MessageIds, ts \in Timestamps, body \in Bodies,
        mt \in MessageTypes, sb \in Bodies}

\* signed by a sender that holds another secret
ForgedRequests ==
    {[id |-> id, ts |-> ts, body |-> body, type |-> mt, readOk |-> TRUE,
      sig |-> Signature("other", (id \o ts) \o body),
      signedTs |-> ts, signedBody |-> body] :
        id \in MessageIds, ts \in Timestamps, body \in Bodies,
        mt \in MessageTypes}

\* without signature header
UnsignedRequests ==
    {[id |-> id, ts |-> ts, body |-> body, type |-> mt, readOk |-> TRUE,
      sig |-> NoSignature, signedTs |-> <<>>, signedBody |-> <<>>] :
        id \in MessageIds, ts \in Timestamps, body \in Bodies,
        mt \in MessageTypes}

\* whose body cannot be read to its end
BrokenRequests ==
    {[id |-> id, ts |-> SentTimestamp, body |-> body, type |-> mt,
      readOk |-> FALSE,
      sig |-> Signature(WebhookSecret, (id \o SentTimestamp) \o body),
      signedTs |-> SentTimestamp, signedBody |-> body] :
        id \in MessageIds, body \in {<<"N">>}, mt \in MessageTypes}

Requests ==
    SignedRequests \cup ForgedRequests \cup UnsignedRequests
                   \cup BrokenRequests

NoReq == [type |-> "none"]

Response(status, text) == [status |-> status, body |-> text]
NoResponse == [status |-> 0]

\* variant: only the "sha256=" prefix of the header is looked at
VerifyPrefixOnly(req) == SigLen(req.sig) >= PrefixLen

\* verifyEventSubSignature
VerifyEventSubSignature(req) ==
    IF SigLen(req.sig) < PrefixLen THEN FALSE
    ELSE req.sig = Signature(WebhookSecret, (req.id \o req.ts) \o req.body)

\* the event object of a notification, as the helix event structs read it
CheerEvent == [valid |-> TRUE, user_name |-> "Ada", bits |-> 500,
               message |-> "gg", tier |-> "", is_gift |-> FALSE,
               cumulative_months |-> 0, total |-> 0,
               from_broadcaster_user_name |-> "", viewers |-> 0]
\* an anonymous cheer of one bit without text
AnonCheerEvent == [CheerEvent EXCEPT !.user_name = "", !.bits = 1,
                                     !.message = ""]
NoEvent == [valid |-> FALSE, user_name |-> "", bits |-> 0, message |-> "",
            tier |-> "", is_gift |-> FALSE, cumulative_months |-> 0,
            total |-> 0, from_broadcaster_user_name |-> "", viewers |-> 0]

\* the JSON objects the body characters stand for, with the members the
\* handler's structs pick up (absent members read as zero values)
JsonObject(ch) ==
    IF ch = "C" THEN [challenge |-> "xyz", subID |-> 0, subType |-> "",
                      event |-> NoEvent]
    ELSE IF ch = "N" THEN [challenge |-> "", subID |-> 1,
                           subType |-> EventSubCheer, event |-> CheerEvent]
    ELSE IF ch = "A" THEN [challenge |-> "", subID |-> 1,
                           subType |-> EventSubCheer,
                           event |-> AnonCheerEvent]
    ELSE IF ch = "U" THEN [challenge |-> "", subID |-> 1,
                           subType |-> "channel.update",
                           event |-> CheerEvent]
    ELSE [challenge |-> "", subID |-> 1, subType |-> EventSubFollow,
          event |-> NoEvent]

RECURSIVE TrimBlanks(_)
\* leading and trailing white space is insignificant to json.Unmarshal
TrimBlanks(text) ==
    IF text = <<>> THEN text
    ELSE IF Head(text) = "_" THEN TrimBlanks(Tail(text))
    ELSE IF text[Len(text)] = "_" THEN TrimBlanks(SubSeq(text, 1, Len(text) - 1))
    ELSE text

\* json.Unmarshal(body, &struct): err == nil
UnmarshalOk(body) ==
    LET t == TrimBlanks(body)
    IN Len(t) = 1 /\ t[1] \in {"C", "N", "A", "U", "R"}

Unmarshal(body) == JsonObject(TrimBlanks(body)[1])

\* variant: a follow whose event does not parse is broadcast all the same
HandleNotificationUnparsed(eventType, e) ==
    IF eventType = EventSubFollow
      THEN [type |-> "twitch_follow", user_name |-> e.user_name]
    ELSE IF eventType = EventSubCheer /\ e.valid
      THEN [type |-> "twitch_cheer", user_name |-> e.user_name,
            bits |-> e.bits, message |-> e.message]
    ELSE NoPayload

\* variant: every event that parses is translated as a follow
HandleNotificationAsFollow(eventType, e) ==
    IF ~e.valid THEN NoPayload
    ELSE [type |-> "twitch_follow", user_name |-> e.user_name]

\* handleNotification: the payload handed to hub.Broadcast, NoPayload when
\* the event does not parse or the type is not handled
HandleNotification(eventType, e) ==
    IF eventType \notin {EventSubFollow, EventSubSubscribe, EventSubSubMessage,
                         EventSubSubGift, EventSubCheer, EventSubRaid}
      THEN NoPayload
    ELSE IF ~e.valid THEN NoPayload
    ELSE IF eventType = EventSubFollow
      THEN [type |-> "twitch_follow", user_name |-> e.user_name]
    ELSE IF eventType = EventSubSubscribe
      THEN [type |-> "twitch_subscribe", user_name |-> e.user_name,
            tier |-> e.tier, is_gift |-> e.is_gift]
    ELSE IF eventType = EventSubSubMessage
      THEN [type |-> "twitch_resubscribe", user_name |-> e.user_name,
            tier |-> e.tier, message |-> e.message,
            cumulative_months |-> e.cumulative_months]
    ELSE IF eventType = EventSubSubGift
      THEN [type |-> "twitch_gift_sub", gifter_name |-> e.user_name,
            total_gifts |-> e.total, tier |-> e.tier]
    ELSE IF eventType = EventSubCheer
      THEN [type |-> "twitch_cheer", user_name |-> e.user_name,
            bits |-> e.bits, message |-> e.message]
    ELSE [type |-> "twitch_raid",
          raider_name |-> e.from_broadcaster_user_name,
          viewers |-> e.viewers]

TwitchInit ==
    /\ subsDb = {}
    /\ remoteSubs = {}
    /\ nextSubId = 1
    /\ subLast = NoCall
    /\ whPc = "idle"
    /\ whReq = NoReq
    /\ whResp = NoResponse
    /\ whCount = 0

\* HandleEventSubCallback up to the point where it either has written its
\* response or blocks in hub.Broadcast (inside handleNotification).
\* dbOk: the database executes the DELETE of a revocation.
HandleEventSubCallback(req, dbOk) ==
    /\ whPc = "idle"
    /\ whCount < MaxRequests
    /\ whCount' = whCount + 1
    /\ whReq' = req
    /\ IF ~req.readOk
         THEN /\ whResp' = Response(500, "Internal Error")
              /\ UNCHANGED <<whPc, subsDb, pending>>
       ELSE IF ~VerifyEventSubSignature(req)
         THEN /\ whResp' = Response(401, "Invalid Signature")
              /\ UNCHANGED <<whPc, subsDb, pending>>
       ELSE IF req.type = "webhook_callback_verification"
         THEN /\ whResp' = IF UnmarshalOk(req.body)
                             THEN Response(200, Unmarshal(req.body).challenge)
                             ELSE Response(400, "Bad Request")
              /\ UNCHANGED <<whPc, subsDb, pending>>
       ELSE IF req.type = "notification"
         THEN IF UnmarshalOk(req.body)
                THEN LET n == Unmarshal(req.body)
                         payload == HandleNotification(n.subType, n.event)
                     IN IF payload # NoPayload
                          THEN /\ pending' = [pending EXCEPT
                                                !["webhook"] = payload]
                               /\ whPc' = "sending"
                               /\ whResp' = NoResponse
                               /\ UNCHANGED subsDb
                          ELSE /\ whResp' = Response(200, "OK")
                               /\ UNCHANGED <<whPc, subsDb, pending>>
                ELSE /\ whResp' = Response(400, "Bad Request")
                     /\ UNCHANGED <<whPc, subsDb, pending>>
       ELSE IF req.type = "revocation"
         THEN /\ subsDb' = IF UnmarshalOk(req.body) /\ dbOk
                             THEN DeleteSubscription(subsDb,
                                                     Unmarshal(req.body).subID)
                             ELSE subsDb
              /\ whResp' = Response(200, "OK")
              /\ UNCHANGED <<whPc, pending>>
       ELSE /\ whResp' = Response(200, "")
            /\ UNCHANGED <<whPc, subsDb, pending>>
    /\ UNCHANGED <<remoteSubs, nextSubId, subLast, pollVars, auxVars,
                   clients, send, closeCount, hubPanic, rp, wp, wire,
                   accepted, regAt, got, evicted, faults,
                   writer>>

\* the hub receives the payload the handler is blocked on
WebhookAccepted ==
    /\ whPc = "sending"
    /\ HubBroadcast("webhook")
    /\ UNCHANGED <<writer, pollVars, twVars, auxVars>>

\* the send has completed: handleNotification returns and the handler
\* acknowledges the notification
WebhookAck ==
    /\ whPc = "sending"
    /\ pending["webhook"] = NoPayload
    /\ whPc' = "idle"
    /\ whResp' = Response(200, "OK")
    /\ UNCHANGED <<subsDb, remoteSubs, nextSubId, subLast, whReq, whCount,
                   hubVars, pollVars, auxVars>>

\* StartMonitoring has subscribed the broadcaster to channel.follow
Subscribed ==
    SubscribeToEvent("u1", EventSubFollow, "ok", TRUE, 0, "enabled", TRUE,
                     FALSE)

SubNext ==
    \/ \E u \in Users, t \in SubTypes, api \in {"ok", "error"},
          listOk \in BOOLEAN, missing \in 0..MaxSubIds,
          st \in SubStatuses, dbOk \in BOOLEAN, unique \in BOOLEAN :
            SubscribeToEvent(u, t, api, listOk, missing, st, dbOk, unique)
    \/ \E id \in 1..MaxSubIds : RemoteDrop(id)
    \/ \E u \in Users : ForeignRaidSub(u)

WebhookNext ==
    \/ Subscribed
    \/ \E req \in Requests, dbOk \in BOOLEAN : HandleEventSubCallback(req, dbOk)
    \/ WebhookAccepted
    \/ WebhookAck

(***************************************************************************)
(* Properties of the subscription manager and the webhook endpoint         *)
(***************************************************************************)
\* C10 (conflict recovery): when a call met the 409 answer, found the
\* matching remote subscription and the database executed the save, exactly
\* one record exists for that (account, event type) and its identifier is the
\* remote subscription's identifier.
C10_ConflictRecovery ==
    (subLast.outcome = "recovered" /\ subLast.dbOk)
      => LET rows == GetSubscription(subsDb, subLast.userID, subLast.eventType)
         IN /\ Cardinality(rows) = 1
            /\ \A r \in rows : r.ID = subLast.remoteID

\* the step is a call of subscribeToEvent / subscribeToRaidEvent for the pair
CallFor(userID, eventType) ==
    /\ subLast' # subLast
    /\ subLast'.userID = userID
    /\ subLast'.eventType = eventType

\* the call returned at the record check: no request went to Twitch and the
\* table is as it was
NoActionTaken ==
    /\ subLast'.outcome = "active"
    /\ UNCHANGED <<subsDb, remoteSubs, nextSubId>>

\* C15 (frame): a call for a pair for which the store holds a record marked
\* enabled sends no creation request and leaves the store unchanged.
C15_EnabledNoAction ==
    [][\A u \in Users, t \in SubTypes :
         (/\ \E r \in GetSubscription(subsDb, u, t) : r.Status = "enabled"
          /\ CallFor(u, t))
           => NoActionTaken]_vars

\* C16 (idempotent creation): when the last call for a pair created the
\* subscription at Twitch and its record is in the store, and the
\* subscription still exists at Twitch, a further call for the pair sends
\* no creation request and leaves the store unchanged.
C16_Idempotent ==
    [][\A u \in Users, t \in SubTypes :
         (/\ subLast.outcome = "created"
          /\ subLast.userID = u /\ subLast.eventType = t
          /\ \E r \in GetSubscription(subsDb, u, t) : r.ID = subLast.remoteID
          /\ \E x \in remoteSubs : x.ID = subLast.remoteID
          /\ CallFor(u, t))
           => NoActionTaken]_vars

\* C17 (one record per pair): the store never holds two records for the
\* same account and event type.
C17_OneRecordPerPair ==
    \A u \in Users, t \in SubTypes :
      Cardinality(GetSubscription(subsDb, u, t)) <= 1

\* the step serves one request
ServesRequest == whCount' = whCount + 1

\* the request is answered 401 and nothing else happens: no payload is built
\* or handed to the hub, the table is as it was
RejectedUnauthorized ==
    /\ whResp'.status = 401
    /\ whPc' = "idle"
    /\ UNCHANGED <<subsDb, pending, accepted>>

\* the signature header is absent or was made with another secret
WrongOrMissingSecret(req) ==
    req.sig = NoSignature \/ req.sig.key # WebhookSecret

\* C6 as stated (signature verification): a request that was read, whose
\* body is not the body the signature was computed over, or whose signature
\* is missing or was made with another secret, is answered 401 and has no
\* effect, whatever its message type.
C6_TamperedRejected ==
    [][(ServesRequest /\ whReq'.readOk
          /\ (whReq'.body # whReq'.signedBody \/ WrongOrMissingSecret(whReq')))
        => RejectedUnauthorized]_vars

\* C6 amended: a request that was read and whose signature header is not
\* "sha256=" followed by the HMAC, under the configured secret, of the
\* concatenation of its message id, timestamp and body is answered 401 and
\* has no effect, whatever its message type.  This covers a missing
\* signature, a signature made with another secret, and a changed body
\* under unchanged message id and timestamp headers.
C6_MismatchRejected ==
    [][(ServesRequest /\ whReq'.readOk
          /\ \/ whReq'.sig # Signature(WebhookSecret,
                                (whReq'.id \o whReq'.ts) \o whReq'.body)
             \/ WrongOrMissingSecret(whReq')
             \/ (whReq'.body # whReq'.signedBody
                   /\ whReq'.ts = whReq'.signedTs))
        => RejectedUnauthorized]_vars

\* C6 witness: a revocation signed by Twitch arrived with its body replaced
\* by one that names an existing record; it was answered 401 and the record
\* is still there
C6_Witness ==
    /\ whCount > 0
    /\ whReq.readOk
    /\ whReq.type = "revocation"
    /\ whReq.sig.key = WebhookSecret
    /\ whReq.ts = whReq.signedTs
    /\ whReq.body = <<"R">>
    /\ whReq.signedBody = <<"N">>
    /\ \E r \in subsDb : r.ID = Unmarshal(whReq.body).subID
    /\ whResp.status = 401

\* the request arrived as Twitch signed it with the configured secret
DeliveredAsSigned(req) ==
    /\ req.readOk
    /\ req.sig.key = WebhookSecret
    /\ req.body = req.signedBody
    /\ req.ts = req.signedTs

\* a notification whose envelope parses
ParsedNotification(req) ==
    DeliveredAsSigned(req) /\ req.type = "notification"
                           /\ UnmarshalOk(req.body)

\* a notification of a cheer whose event carries user_name, bits, message
CheerNotification(req) ==
    /\ ParsedNotification(req)
    /\ Unmarshal(req.body).subType = EventSubCheer
    /\ Unmarshal(req.body).event.valid

\* the payload expected for a cheer event
CheerPayload(e) ==
    [type |-> "twitch_cheer", user_name |-> e.user_name, bits |-> e.bits,
     message |-> e.message]

\* C13 (cheer translation): serving a correctly signed channel.cheer
\* notification hands to the hub the payload {type: twitch_cheer, user_name,
\* bits, message} with the values of the event; until the notification is
\* acknowledged the hub accepts that payload and nothing else, exactly once,
\* and the acknowledgement (status 200) comes only after it was accepted.
C13_CheerTranslation ==
    [][/\ (ServesRequest /\ CheerNotification(whReq'))
            => /\ pending'["webhook"]
                    = CheerPayload(Unmarshal(whReq'.body).event)
               /\ whPc' = "sending"
               /\ accepted' = accepted
       /\ (whPc = "sending" /\ CheerNotification(whReq))
            => LET p == CheerPayload(Unmarshal(whReq.body).event)
               IN /\ accepted' # accepted
                       => /\ accepted' = Append(accepted, p)
                          /\ pending["webhook"] = p
                          /\ pending'["webhook"] = NoPayload
                  /\ pending'["webhook"] # pending["webhook"]
                       => accepted' # accepted
                  /\ whPc' # "sending"
                       => /\ pending["webhook"] = NoPayload
                          /\ whPc' = "idle"
                          /\ whResp'.status = 200]_vars

\* C13 witness: the cheer of Ada (500 bits, "gg") was delivered as signed,
\* its payload is the one payload the hub has accepted, and the notification
\* was acknowledged
C13_Witness ==
    /\ whCount > 0
    /\ CheerNotification(whReq)
    /\ Unmarshal(whReq.body).event = CheerEvent
    /\ whPc = "idle"
    /\ whResp = Response(200, "OK")
    /\ accepted = <<[type |-> "twitch_cheer", user_name |-> "Ada",
                     bits |-> 500, message |-> "gg"]>>

\* a revocation delivered as signed whose envelope parses
ParsedRevocation(req) ==
    DeliveredAsSigned(req) /\ req.type = "revocation"
                           /\ UnmarshalOk(req.body)

\* C18 (revocation): serving a correctly signed revocation deletes the
\* record whose id is the revoked subscription's id and no other record,
\* hands nothing to the hub and is answered 200; a call of subscribeToEvent
\* that follows for a pair whose record is gone sends a creation request.
C18_Revocation ==
    [][/\ (ServesRequest /\ ParsedRevocation(whReq'))
            => /\ subsDb' = DeleteSubscription(subsDb,
                                               Unmarshal(whReq'.body).subID)
               /\ UNCHANGED <<pending, accepted>>
               /\ whPc' = "idle"
               /\ whResp' = Response(200, "OK")
       /\ \A u \in Users, t \in SubTypes :
            (/\ whCount > 0
             /\ ParsedRevocation(whReq)
             /\ GetSubscription(subsDb, u, t) = {}
             /\ CallFor(u, t))
              => subLast'.outcome # "active"]_vars

\* the event types handleNotification has a case for
HandledTypes ==
    {EventSubFollow, EventSubSubscribe, EventSubSubMessage, EventSubSubGift,
     EventSubCheer, EventSubRaid}

\* the notification names a handled type and its event parses for that type
Translatable(req) ==
    /\ Unmarshal(req.body).subType \in HandledTypes
    /\ Unmarshal(req.body).event.valid

\* C19 (acknowledge whatever the translation): a correctly signed
\* notification whose envelope parses never gets an error response.  When
\* its type is not handled or its event does not parse, it is answered 200
\* at once and nothing is handed to the hub.  Otherwise one payload is
\* handed to the hub, the hub accepts it exactly once and nothing else before
\* the answer, and the answer, given after that, is 200.
C19_AckRegardless ==
    [][/\ (ServesRequest /\ ParsedNotification(whReq')
                          /\ ~Translatable(whReq'))
            => /\ whResp' = Response(200, "OK")
               /\ whPc' = "idle"
               /\ UNCHANGED <<pending, accepted>>
       /\ (ServesRequest /\ ParsedNotification(whReq')
                          /\ Translatable(whReq'))
            => /\ pending["webhook"] = NoPayload
               /\ pending'["webhook"] # NoPayload
               /\ whPc' = "sending"
               /\ whResp' = NoResponse
               /\ accepted' = accepted
       /\ (whPc = "sending" /\ ParsedNotification(whReq))
            => /\ accepted' # accepted
                    => /\ accepted' = Append(accepted, pending["webhook"])
                       /\ pending["webhook"] # NoPayload
                       /\ pending'["webhook"] = NoPayload
               /\ pending'["webhook"] # pending["webhook"]
                    => accepted' # accepted
               /\ whResp' # whResp
                    => /\ pending["webhook"] = NoPayload
                       /\ whPc' = "idle"
                       /\ whResp' = Response(200, "OK")]_vars

\* C19 witness: after a cheer was broadcast and acknowledged, a signed
\* notification of a type without a case (channel.update) was answered 200
\* and the hub has accepted nothing for it
C19_Witness ==
    /\ whCount > 1
    /\ ParsedNotification(whReq)
    /\ Unmarshal(whReq.body).subType = "channel.update"
    /\ whPc = "idle"
    /\ whResp = Response(200, "OK")
    /\ pending["webhook"] = NoPayload
    /\ Len(accepted) = 1
    /\ accepted[1].type = "twitch_cheer"

\* the step is a call of subscribeToEvent / subscribeToRaidEvent that ended
\* with the given outcome
SubscribeEnds(outcome) ==
    /\ subLast'.outcome = outcome
    /\ subLast' # subLast \/ subsDb' # subsDb

\* C35 (which subscription the conflict recovery selects): the subscription
\* taken after a 409 is one Twitch holds for the event type, whose condition
\* names the account as target of the raid for channel.raid and as
\* broadcaster for every other type, never a raid subscription that names the
\* account only as the side the raid comes from, and only its row may be
\* added to the table; when the list holds no such subscription the call
\* ends with an error and the table is unchanged.
C35_RecoverySelects ==
    [][/\ SubscribeEnds("recovered")
          => \E s \in remoteSubs :
               /\ s.ID = subLast'.remoteID
               /\ s.Type = subLast'.eventType
               /\ IF subLast'.eventType = EventSubRaid
                    THEN s.Condition.ToBroadcasterUserID = subLast'.userID
                    ELSE s.Condition.BroadcasterUserID = subLast'.userID
               /\ subsDb' \in {subsDb,
                               subsDb \cup {RowFor(subLast'.userID,
                                                   subLast'.eventType, s)}}
       /\ subLast'.outcome = "notFound" => subsDb' = subsDb]_vars

\* C35 witness: Twitch holds a raid subscription that names the account as
\* the raiding side and a later one that names it as the target; the
\* recovery took the later one and wrote its row
C35_Witness ==
    /\ subLast.outcome = "recovered"
    /\ subLast.eventType = EventSubRaid
    /\ subLast.remoteID = 2
    /\ \E s \in remoteSubs :
         /\ s.ID = 1
         /\ s.Type = EventSubRaid
         /\ s.Condition.FromBroadcasterUserID = subLast.userID
    /\ \E r \in subsDb : r.ID = 2 /\ r.UserID = subLast.userID
                         /\ r.EventType = EventSubRaid

(***************************************************************************)
(* The Twitch chat bot: ChatClient                                         *)
(***************************************************************************)
MaxChats == 3
MaxClock == 4
\* number of list commands handled
MaxSays == 6
\* burst of the limiter of outgoing messages; it refills one token a second
Burst == 5
\* the cooldown NewChatClient falls back to, in seconds
DefaultCooldown == 15
\* values of cfg.CommandCooldown
CooldownConfigs == {0, 2}

\* twitch.User: the name and the keys of the Badges map
TwitchUser(name, badges) == [Name |-> name, Badges |-> badges]
ChatUsers == {TwitchUser("ada", {}), TwitchUser("bob", {}),
              TwitchUser("mod", {"moderator"})}

\* twitch.Emote values carried by a message
NoEmotes == <<>>
OneEmote == <<[ID |-> "25", Count |-> 2]>>

\* the URLs handlePrivateMessage builds: one per occurrence of each emote
RECURSIVE EmoteURLs(_)
EmoteURLs(emotes) ==
    IF emotes = <<>> THEN <<>>
    ELSE [i \in 1..Head(emotes).Count |-> Head(emotes).ID]
           \o EmoteURLs(Tail(emotes))

\* twitch.PrivateMessage
PrivateMessage(user, text, emotes) ==
    [User |-> user, Message |-> text, Emotes |-> emotes]
ChatTexts == {"hello", "!test", "!vip", "!nope", "!commands"}
PrivateMessages ==
    {PrivateMessage(u, t, NoEmotes) : u \in ChatUsers, t \in ChatTexts}
      \cup {PrivateMessage(u, "!test", OneEmote) : u \in ChatUsers}
\* the messages that ask for the list of commands
ListMessages ==
    {m \in PrivateMessages : m.Message = "!commands"}
      \cup {PrivateMessage(TwitchUser("ada", {}), "!commands", OneEmote)}
NoMessage == [Message |-> ""]

\* the reserved names that list the commands instead of playing one
ListCommandNames == {"commands", "comandi"}

\* the switch on requiredLevel alone
hasPermissionByTier(user, requiredLevel) ==
    IF requiredLevel = PermissionEveryone THEN TRUE
    ELSE IF requiredLevel = PermissionSubscriber
      THEN "subscriber" \in user.Badges \/ "founder" \in user.Badges
    ELSE IF requiredLevel = PermissionVIP THEN "vip" \in user.Badges
    ELSE FALSE

\* hasPermission: the badges of the user against the required level
hasPermission(user, requiredLevel) ==
    IF "broadcaster" \in user.Badges THEN TRUE
    ELSE IF "moderator" \in user.Badges THEN TRUE
    ELSE IF requiredLevel = PermissionEveryone THEN TRUE
    ELSE IF requiredLevel = PermissionSubscriber
      THEN "subscriber" \in user.Badges \/ "founder" \in user.Badges
    ELSE IF requiredLevel = PermissionVIP THEN "vip" \in user.Badges
    ELSE FALSE

\* the cooldown check: the command was used and the time since then is
\* shorter than the cooldown
OnCooldownAlways(usage, name, t, cd) == name \in DOMAIN usage
OnCooldown(usage, name, t, cd) ==
    name \in DOMAIN usage /\ t - usage[name] < cd

\* c.lastUsage[commandName] = time.Now()
RecordUsage(usage, name, t) ==
    [n \in DOMAIN usage \cup {name} |-> IF n = name THEN t ELSE usage[n]]

ChatInit ==
    /\ cooldownDuration = 0
    /\ lastUsage = <<>>
    /\ now = 0
    /\ chatPc = "idle"
    /\ chatMsg = NoMessage
    /\ chatLog = <<>>
    /\ chatCount = 0
    /\ sayTokens = 0
    /\ said = 0

\* NewChatClient: a cooldown that is not positive becomes the default
NewChatClient(cd) ==
    /\ cooldownDuration = 0
    /\ cooldownDuration' = IF cd <= 0 THEN DefaultCooldown ELSE cd
    /\ lastUsage' = <<>>
    /\ sayTokens' = Burst
    /\ UNCHANGED <<now, chatPc, chatMsg, chatLog, chatCount, said>>
    /\ UNCHANGED <<hubVars, pollVars, twVars, permLast, credVars, scanVars>>

\* a second passes; the bucket of the limiter gains a token up to its burst
Tick ==
    /\ cooldownDuration > 0
    /\ now < MaxClock
    /\ now' = now + 1
    /\ sayTokens' = IF sayTokens < Burst THEN sayTokens + 1 ELSE Burst
    /\ UNCHANGED <<cooldownDuration, lastUsage, chatPc, chatMsg, chatLog,
                   chatCount, said>>
    /\ UNCHANGED <<hubVars, pollVars, twVars, permLast, credVars, scanVars>>

\* variant: the time of use is written before the cooldown is looked at
CommandPartRecordsFirst(message) ==
    LET name == CommandNameOf(message.Message)
        listing == HasCommandPrefix(message.Message)
                     /\ name \in ListCommandNames
        known == HasCommandPrefix(message.Message) /\ ~listing
                   /\ name \in CommandNames
        permitted == known /\ hasPermission(message.User,
                                            Commands(name).Permission)
        fires == permitted /\ ~OnCooldown(lastUsage, name, now,
                                          cooldownDuration)
    IN /\ chatLog' = IF permitted
                       THEN Append(chatLog, [name |-> name,
                                             user |-> message.User.Name,
                                             at |-> now, sent |-> fires])
                       ELSE chatLog
       /\ lastUsage' = IF permitted THEN RecordUsage(lastUsage, name, now)
                                    ELSE lastUsage
       /\ IF fires
            THEN /\ pending' = [pending EXCEPT !["chat"] =
                                  [type |-> "sound_command",
                                   filename |-> Commands(name).Filename,
                                   media_type |-> Commands(name).MediaType]]
                 /\ chatPc' = "command"
                 /\ chatMsg' = message
            ELSE IF listing
            THEN /\ chatPc' = "say"
                 /\ chatMsg' = message
                 /\ UNCHANGED pending
            ELSE /\ chatPc' = "idle"
                 /\ chatMsg' = NoMessage
                 /\ UNCHANGED pending

\* handlePrivateMessage from the prefix check on (steps 2 to 4): the list
\* command (handleListCommands is entered, nothing goes to the hub), the command
\* lookup, the permission check, the cooldown check and the send of the
\* "sound_command" payload
CommandPart(message) ==
    LET name == CommandNameOf(message.Message)
        listing == HasCommandPrefix(message.Message)
                     /\ name \in ListCommandNames
        known == HasCommandPrefix(message.Message) /\ ~listing
                   /\ name \in CommandNames
        permitted == known /\ hasPermission(message.User,
                                            Commands(name).Permission)
        fires == permitted /\ ~OnCooldown(lastUsage, name, now,
                                          cooldownDuration)
    IN /\ chatLog' = IF permitted
                       THEN Append(chatLog, [name |-> name,
                                             user |-> message.User.Name,
                                             at |-> now, sent |-> fires])
                       ELSE chatLog
       /\ IF fires
            THEN /\ lastUsage' = RecordUsage(lastUsage, name, now)
                 /\ pending' = [pending EXCEPT !["chat"] =
                                  [type |-> "sound_command",
                                   filename |-> Commands(name).Filename,
                                   media_type |-> Commands(name).MediaType]]
                 /\ chatPc' = "command"
                 /\ chatMsg' = message
            ELSE IF listing
            THEN /\ chatPc' = "say"
                 /\ chatMsg' = message
                 /\ UNCHANGED <<lastUsage, pending>>
            ELSE /\ chatPc' = "idle"
                 /\ chatMsg' = NoMessage
                 /\ UNCHANGED <<lastUsage, pending>>

\* the IRC library calls handlePrivateMessage: a message with emotes sends
\* the "emote_wall" payload first and blocks in that send
HandlePrivateMessage(message) ==
    /\ cooldownDuration > 0
    /\ chatPc = "idle"
    /\ chatCount < (IF message \in ListMessages THEN MaxSays ELSE MaxChats)
    /\ chatCount' = chatCount + 1
    /\ IF EmoteURLs(message.Emotes) # <<>>
         THEN /\ pending' = [pending EXCEPT !["chat"] =
                               [type |-> "emote_wall",
                                emotes |-> EmoteURLs(message.Emotes)]]
              /\ chatPc' = "emotes"
              /\ chatMsg' = message
              /\ UNCHANGED <<lastUsage, chatLog>>
         ELSE CommandPart(message)
    /\ UNCHANGED <<cooldownDuration, now, sayTokens, said>>
    /\ UNCHANGED <<clients, send, closeCount, hubPanic, rp, wp, wire,
                   accepted, regAt, got, evicted, faults,
                   writer>>
    /\ UNCHANGED <<pollVars, twVars, permLast, credVars, scanVars>>

\* the hub receives the payload the chat goroutine is blocked on
ChatAccepted ==
    /\ chatPc \in {"emotes", "command"}
    /\ HubBroadcast("chat")
    /\ UNCHANGED <<writer, pollVars, twVars, auxVars>>

\* the send of the emote wall has completed: the handler goes on with the
\* prefix check
ChatResume ==
    /\ chatPc = "emotes"
    /\ pending["chat"] = NoPayload
    /\ CommandPart(chatMsg)
    /\ UNCHANGED <<cooldownDuration, now, chatCount, sayTokens, said>>
    /\ UNCHANGED <<clients, send, closeCount, hubPanic, rp, wp, wire,
                   accepted, regAt, got, evicted, faults,
                   writer>>
    /\ UNCHANGED <<pollVars, twVars, permLast, credVars, scanVars>>

\* the send of the command payload has completed: the handler returns
ChatReturn ==
    /\ chatPc = "command"
    /\ pending["chat"] = NoPayload
    /\ chatPc' = "idle"
    /\ chatMsg' = NoMessage
    /\ UNCHANGED <<cooldownDuration, lastUsage, now, chatLog, chatCount,
                   sayTokens, said>>
    /\ UNCHANGED <<hubVars, pollVars, twVars, permLast, credVars, scanVars>>

\* variant: the reply is sent without a look at the limiter
HandleListCommandsUngated(waitOk) ==
    /\ chatPc = "say"
    /\ said' = said + 1
    /\ chatPc' = "idle"
    /\ chatMsg' = NoMessage
    /\ UNCHANGED <<cooldownDuration, lastUsage, now, chatLog, chatCount,
                   sayTokens>>
    /\ UNCHANGED <<hubVars, pollVars, twVars, permLast, credVars, scanVars>>

\* handleListCommands: sayLimiter.Wait returns nil once it has taken a token
\* (it waits while the bucket is empty) or returns an error, in which case
\* the handler returns; after nil the list is sent with c.client.Say
HandleListCommands(waitOk) ==
    /\ chatPc = "say"
    /\ IF waitOk
         THEN /\ sayTokens >= 1
              /\ sayTokens' = sayTokens - 1
              /\ said' = said + 1
         ELSE UNCHANGED <<sayTokens, said>>
    /\ chatPc' = "idle"
    /\ chatMsg' = NoMessage
    /\ UNCHANGED <<cooldownDuration, lastUsage, now, chatLog, chatCount>>
    /\ UNCHANGED <<hubVars, pollVars, twVars, permLast, credVars, scanVars>>

\* the chat bot with the messages that play a command
ChatNext ==
    \/ \E cd \in CooldownConfigs : NewChatClient(cd)
    \/ Tick
    \/ \E message \in PrivateMessages \ ListMessages :
         HandlePrivateMessage(message)
    \/ ChatAccepted
    \/ ChatResume
    \/ ChatReturn

\* the chat bot with the messages that ask for the list of commands
SayNext ==
    \/ \E cd \in CooldownConfigs : NewChatClient(cd)
    \/ Tick
    \/ \E message \in ListMessages : HandlePrivateMessage(message)
    \/ ChatAccepted
    \/ ChatResume
    \/ \E waitOk \in BOOLEAN : HandleListCommands(waitOk)

(***************************************************************************)
(* Properties of the chat bot                                              *)
(***************************************************************************)
\* the invocations of one command name that reached the cooldown check
SubLog(name) == SelectSeq(chatLog, LAMBDA e : e.name = name)

\* the "sound_command" payloads of one command handed to the hub so far
IsSoundCommand(p, name) ==
    p.type = "sound_command" /\ p.filename = Commands(name).Filename
SoundCommands(name) ==
    Cardinality({i \in 1..Len(accepted) : IsSoundCommand(accepted[i], name)})
      + (IF IsSoundCommand(pending["chat"], name) THEN 1 ELSE 0)

\* C11 (command cooldown): for every command name, the first permitted
\* invocation is dispatched, and of two successive permitted invocations of
\* that name of which the first was dispatched, the second is dispatched
\* exactly when it comes at least the cooldown after the first (two events)
\* and is dropped when it comes sooner (one event), whoever issued them and
\* whatever was invoked under other names; the "sound_command" payloads
\* handed to the hub for the name are exactly the dispatched invocations.
C11_Cooldown ==
    \A name \in CommandNames :
      LET sub == SubLog(name) IN
        /\ SoundCommands(name)
             = Cardinality({i \in 1..Len(sub) : sub[i].sent})
        /\ Len(sub) >= 1 => sub[1].sent
        /\ \A i \in 1..(Len(sub) - 1) :
             sub[i].sent =>
               (sub[i + 1].sent
                  <=> sub[i + 1].at - sub[i].at >= cooldownDuration)

\* C11 witness: "test" was invoked by three different users; the second
\* invocation came within the cooldown of the first and was dropped, the
\* third came a full cooldown after the first and was dispatched, and both
\* payloads reached the hub
C11_Witness ==
    LET sub == SubLog("test") IN
      /\ Len(sub) = 3
      /\ Cardinality({sub[i].user : i \in 1..3}) = 3
      /\ sub[1].sent /\ ~sub[2].sent /\ sub[3].sent
      /\ sub[2].at - sub[1].at < cooldownDuration
      /\ sub[3].at - sub[1].at >= cooldownDuration
      /\ SoundCommands("test") = 2
      /\ pending["chat"] = NoPayload

\* the message can be dispatched now: it names a command of the table, its
\* user has the tier of the command, and the command is not within the
\* cooldown of its last use
Dispatchable(message) ==
    LET name == CommandNameOf(message.Message) IN
      /\ HasCommandPrefix(message.Message)
      /\ name \in CommandNames
      /\ hasPermission(message.User, Commands(name).Permission)
      /\ ~OnCooldown(lastUsage, name, now, cooldownDuration)

\* the step is the one in which handlePrivateMessage goes through the command
\* part for a message
HandlesCommandPart ==
    \/ chatPc = "idle" /\ chatCount' # chatCount /\ chatPc' # "emotes"
    \/ chatPc = "emotes" /\ chatPc' # "emotes"

\* C31 (a command that is not dispatched leaves no trace): a sound_command
\* payload is emitted, and the ledger is changed, only in the step that
\* handles a message which can be dispatched at that moment; a handling step
\* that does not dispatch changes neither the ledger nor anything of the hub
\* and leaves the handler idle with nothing kept of the message.
C31_NoTrace ==
    [][/\ ((pending'["chat"] # pending["chat"]
              /\ pending'["chat"].type = "sound_command")
            \/ lastUsage' # lastUsage)
          => /\ HandlesCommandPart
             /\ cooldownDuration' = cooldownDuration
             /\ chatMsg' # NoMessage
             /\ Dispatchable(chatMsg')
       /\ (HandlesCommandPart /\ chatPc' = "idle")
          => /\ UNCHANGED <<lastUsage, hubVars>>
             /\ chatMsg' = NoMessage]_vars

\* C31 witness: a second "!test" came within the cooldown of the first and
\* was dropped, a third message was not permitted or unknown; the ledger
\* still holds the time of the first and one payload reached the hub
C31_Witness ==
    /\ chatCount = 3
    /\ Len(chatLog) = 2
    /\ chatLog[1].sent /\ ~chatLog[2].sent
    /\ chatLog[2].at > chatLog[1].at
    /\ lastUsage = RecordUsage(<<>>, "test", chatLog[1].at)
    /\ SoundCommands("test") = 1
    /\ chatPc = "idle"
    /\ pending["chat"] = NoPayload

\* C32 (the list of commands is gated by the limiter): a reply is sent only
\* by handleListCommands in a step that takes a token out of a bucket that
\* holds one, so the replies never outnumber the burst plus the seconds that
\* have passed; a failed acquisition sends nothing; entering and leaving
\* handleListCommands changes nothing of the hub and nothing of the ledger.
C32_ListGated ==
    /\ [](said <= Burst + now)
    /\ [][/\ said' # said
             => /\ chatPc = "say"
                /\ said' = said + 1
                /\ sayTokens >= 1
                /\ sayTokens' = sayTokens - 1
          /\ (chatPc = "say" /\ chatPc' # "say" /\ sayTokens' = sayTokens)
             => said' = said
          /\ ((chatPc = "say") # (chatPc' = "say"))
             => UNCHANGED <<hubVars, lastUsage, chatLog>>]_vars

\* C32 witness: five replies emptied the bucket, the sixth list command
\* waited for the token of the next second and was then answered
C32_Witness ==
    /\ said = 6
    /\ now = 1
    /\ sayTokens = 0
    /\ chatCount = 6
    /\ chatPc = "idle"

\* the step hands a sound_command payload for the command to the hub on
\* behalf of the polling source
PollerDispatches(name) ==
    /\ pending'["poller"] # pending["poller"]
    /\ IsSoundCommand(pending'["poller"], name)

\* C26 (one cooldown for both sources): the polling source dispatches a
\* command only when the command is not within the cooldown window of its
\* last dispatch recorded in the ledger, and a dispatch by the polling
\* source records the time of the dispatch in the ledger under the command
\* name.
C26_SharedCooldown ==
    [][\A name \in CommandNames :
         PollerDispatches(name)
           => /\ ~OnCooldown(lastUsage, name, now,
                             IF cooldownDuration > 0 THEN cooldownDuration
                                                     ELSE DefaultCooldown)
              /\ lastUsage' = RecordUsage(lastUsage, name, now)]_vars

(***************************************************************************)
(* The permission checks of the two chat sources, applied to every role    *)
(***************************************************************************)
\* the tiers ScanAudioCommands gives to commands
Tiers == {PermissionEveryone, PermissionSubscriber, PermissionVIP}
\* badge names a Twitch user can carry ("turbo" gives no role)
Badges == {"broadcaster", "moderator", "subscriber", "founder", "vip",
           "turbo"}
\* youtube.LiveChatMessageAuthorDetails with every combination of flags
Authors == {[DisplayName |-> "Ada", IsChatModerator |-> m, IsChatOwner |-> o,
             IsChatSponsor |-> s] : m \in BOOLEAN, o \in BOOLEAN,
                                    s \in BOOLEAN}

PermInit == permLast = [source |-> "none"]

\* ChatClient.hasPermission called for a user and a command's tier
TwitchCheck(user, level) ==
    /\ permLast' = [source |-> "twitch", badges |-> user.Badges,
                    level |-> level, ok |-> hasPermission(user, level)]
    /\ UNCHANGED <<hubVars, pollVars, twVars, chatVars, credVars, scanVars>>

\* the permission switch of the YouTube handleCommand for an author and a
\* command's tier
YouTubeCheck(author, level) ==
    /\ permLast' = [source |-> "youtube", author |-> author,
                    level |-> level, ok |-> YtHasPerm(author, level)]
    /\ UNCHANGED <<hubVars, pollVars, twVars, chatVars, credVars, scanVars>>

PermNext ==
    \/ \E b \in SUBSET Badges, level \in Tiers :
         TwitchCheck(TwitchUser("ada", b), level)
    \/ \E author \in Authors, level \in Tiers : YouTubeCheck(author, level)

\* C12 (permission monotonicity): on Twitch a broadcaster or moderator
\* badge satisfies every tier, a user without role badge satisfies the
\* everyone tier only, and a subscriber or founder badge satisfies the
\* subscriber tier; on YouTube the channel owner or a moderator satisfies
\* every tier, an author without flag satisfies the everyone tier only, and
\* a channel member satisfies the subscriber tier.
C12_Monotonic ==
    /\ permLast.source = "twitch" =>
         /\ (permLast.badges \cap {"broadcaster", "moderator"} # {})
              => permLast.ok
         /\ (permLast.badges \subseteq {"turbo"})
              => (permLast.ok <=> permLast.level = PermissionEveryone)
         /\ (permLast.badges \cap {"subscriber", "founder"} # {}
               /\ permLast.level = PermissionSubscriber) => permLast.ok
    /\ permLast.source = "youtube" =>
         /\ (permLast.author.IsChatModerator \/ permLast.author.IsChatOwner)
              => permLast.ok
         /\ (~permLast.author.IsChatModerator /\ ~permLast.author.IsChatOwner
               /\ ~permLast.author.IsChatSponsor)
              => (permLast.ok <=> permLast.level = PermissionEveryone)
         /\ (permLast.author.IsChatSponsor
               /\ permLast.level = PermissionSubscriber) => permLast.ok

\* C12 witness: a moderator who is neither subscriber nor VIP was checked
\* against the subscriber tier on Twitch and passed
C12_Witness ==
    /\ permLast.source = "twitch"
    /\ permLast.badges = {"moderator"}
    /\ permLast.level = PermissionSubscriber
    /\ permLast.ok

\* the hub receives the payload of a producer of the hub specification
TestAccepted(pr) == HubBroadcast(pr) /\ UNCHANGED <<pollVars, twVars, auxVars>>

(***************************************************************************)
(* internal/twitch and internal/database: the user token (twitch_credentials)*)
(***************************************************************************)
\* number of runs of maintainUserToken (one per start of the process)
MaxMaintains == 3
\* the clock runs from 0 to MaxTime
MaxTime == 3

\* a token string; EmptyToken is ""
Token(kind, n) == [kind |-> kind, n |-> n]
EmptyToken == Token("", 0)

\* GetTwitchCredentials: the rows selected for the user (none: sql.ErrNoRows)
GetTwitchCredentials(db, userID) == {r \in db : r.UserID = userID}

\* variant: the upsert updates access token and expiry only
UpsertKeepsRefreshToken(db, creds) ==
    {r \in db : r.UserID # creds.UserID}
      \cup (IF GetTwitchCredentials(db, creds.UserID) = {} THEN {creds}
            ELSE {[creds EXCEPT !.RefreshToken = r.RefreshToken] :
                    r \in GetTwitchCredentials(db, creds.UserID)})

\* UpsertTwitchCredentials: INSERT ... ON CONFLICT (user_id) DO UPDATE SET
\* access_token, refresh_token, expires_at
UpsertTwitchCredentials(db, creds) ==
    {r \in db : r.UserID # creds.UserID} \cup {creds}

\* the answers of helix.RefreshUserAccessToken: a new pair, a transport
\* error, a status >= 400
ExchangeAnswers == {"ok", "error", "status400"}
\* expires_in of an answer, in seconds
ExpiresInValues == {0, 2}
NoTokenData == [AccessToken |-> EmptyToken, RefreshToken |-> EmptyToken,
                ExpiresIn |-> 0]

NoMaintain == [outcome |-> "none"]

CredInit ==
    /\ credsDb = {}
    /\ utcNow = 0
    /\ tokenGen = 0
    /\ credLast = NoMaintain
    /\ credCalls = 0

\* the operator authorizes the account out of band: the row the service
\* finds at start, with or without a refresh token
Authorize(userID, refresh, expiresAt) ==
    /\ GetTwitchCredentials(credsDb, userID) = {}
    /\ credsDb' = UpsertTwitchCredentials(credsDb,
                     [UserID |-> userID, AccessToken |-> Token("access", 0),
                      RefreshToken |-> refresh, ExpiresAt |-> expiresAt])
    /\ UNCHANGED <<utcNow, tokenGen, credLast, credCalls, hubVars, pollVars,
                   twVars, chatVars, permLast, scanVars>>

\* a second passes
ClockTick ==
    /\ utcNow < MaxTime
    /\ utcNow' = utcNow + 1
    /\ UNCHANGED <<credsDb, tokenGen, credLast, credCalls, hubVars, pollVars,
                   twVars, chatVars, permLast, scanVars>>

\* the record of one run of maintainUserToken
Maintained(userID, outcome, ret, exchange, data) ==
    [userID |-> userID, outcome |-> outcome, ret |-> ret,
     exchange |-> exchange, data |-> data, at |-> utcNow]

\* variant: refreshToken without the empty-token check
RefreshTokenUnchecked(creds, exchange, expiresIn, dbOk) ==
    IF exchange # "ok"
      THEN /\ credLast' = [userID |-> creds.UserID,
                           outcome |-> "exchangeFailed", ret |-> "error",
                           exchange |-> exchange,
                           data |-> [AccessToken |-> EmptyToken,
                                     RefreshToken |-> EmptyToken,
                                     ExpiresIn |-> 0],
                           at |-> utcNow]
           /\ UNCHANGED <<credsDb, tokenGen>>
    ELSE /\ tokenGen' = tokenGen + 1
         /\ credLast' = [userID |-> creds.UserID, outcome |-> "refreshed",
                         ret |-> "nil", exchange |-> "ok",
                         data |-> [AccessToken |-> Token("access", tokenGen + 1),
                                   RefreshToken |-> Token("refresh", tokenGen + 1),
                                   ExpiresIn |-> expiresIn],
                         at |-> utcNow]
         /\ credsDb' = {r \in credsDb : r.UserID # creds.UserID}
                         \cup {[UserID |-> creds.UserID,
                                AccessToken |-> Token("access", tokenGen + 1),
                                RefreshToken |-> Token("refresh", tokenGen + 1),
                                ExpiresAt |-> utcNow + expiresIn]}

\* refreshToken: the empty-token check, the exchange and the upsert.
\*   exchange  : the answer of helix.RefreshUserAccessToken
\*   expiresIn : expires_in of a successful answer
\*   dbOk      : the database executes the upsert
RefreshToken(creds, exchange, expiresIn, dbOk) ==
    IF creds.RefreshToken = EmptyToken
      THEN /\ credLast' = Maintained(creds.UserID, "emptyRefreshToken",
                                     "error", "none", NoTokenData)
           /\ UNCHANGED <<credsDb, tokenGen>>
    ELSE IF exchange # "ok"
      THEN /\ credLast' = Maintained(creds.UserID, "exchangeFailed", "error",
                                     exchange, NoTokenData)
           /\ UNCHANGED <<credsDb, tokenGen>>
    ELSE LET data == [AccessToken |-> Token("access", tokenGen + 1),
                      RefreshToken |-> Token("refresh", tokenGen + 1),
                      ExpiresIn |-> expiresIn]
             newCreds == [UserID |-> creds.UserID,
                          AccessToken |-> data.AccessToken,
                          RefreshToken |-> data.RefreshToken,
                          ExpiresAt |-> utcNow + data.ExpiresIn]
         IN /\ tokenGen' = tokenGen + 1
            /\ IF dbOk
                 THEN /\ credsDb' = UpsertTwitchCredentials(credsDb, newCreds)
                      /\ credLast' = Maintained(creds.UserID, "refreshed",
                                                "nil", "ok", data)
                 ELSE /\ credLast' = Maintained(creds.UserID,
                                                "dbUpdateFailed", "error",
                                                "ok", data)
                      /\ UNCHANGED credsDb

\* maintainUserToken (RefreshIfExpired), run by NewClient for the primary
\* account.
\*   readOk   : the database executes the SELECT
\*   cfgToken : the configuration holds a user access token
MaintainUserToken(userID, readOk, cfgToken, exchange, expiresIn, dbOk) ==
    /\ credCalls < MaxMaintains
    /\ credCalls' = credCalls + 1
    /\ IF ~readOk
         THEN /\ credLast' = Maintained(userID, "readError", "error", "none",
                                        NoTokenData)
              /\ UNCHANGED <<credsDb, tokenGen>>
       ELSE IF GetTwitchCredentials(credsDb, userID) = {}
         THEN /\ credLast' = Maintained(userID,
                               IF cfgToken THEN "initialSetup"
                                           ELSE "noCredentials",
                               IF cfgToken THEN "nil" ELSE "error",
                               "none", NoTokenData)
              /\ UNCHANGED <<credsDb, tokenGen>>
       ELSE \E creds \in GetTwitchCredentials(credsDb, userID) :
              IF utcNow > creds.ExpiresAt
                THEN RefreshToken(creds, exchange, expiresIn, dbOk)
                ELSE /\ credLast' = Maintained(userID, "valid", "nil", "none",
                                               NoTokenData)
                     /\ UNCHANGED <<credsDb, tokenGen>>
    /\ UNCHANGED <<utcNow, hubVars, pollVars, twVars, chatVars, permLast, scanVars>>

CredNext ==
    \/ \E u \in Users, refresh \in {EmptyToken, Token("refresh", 0)},
          e \in 0..MaxTime : Authorize(u, refresh, e)
    \/ ClockTick
    \/ \E u \in Users, readOk \in BOOLEAN, cfgToken \in BOOLEAN,
          x \in ExchangeAnswers, e \in ExpiresInValues, dbOk \in BOOLEAN :
            MaintainUserToken(u, readOk, cfgToken, x, e, dbOk)

\* the step is a run of maintainUserToken for the account, which finds the
\* row r
MaintainsWith(userID, r) ==
    /\ credCalls' = credCalls + 1
    /\ credLast'.userID = userID
    /\ credLast'.outcome # "readError"
    /\ r \in GetTwitchCredentials(credsDb, userID)

\* the account's row holds the pair Twitch answered with and the expiry
\* computed from its expires_in; the other accounts' rows are as they were
ReplacedBy(userID, data) ==
    credsDb' = {x \in credsDb : x.UserID # userID}
                 \cup {[UserID |-> userID, AccessToken |-> data.AccessToken,
                        RefreshToken |-> data.RefreshToken,
                        ExpiresAt |-> utcNow + data.ExpiresIn]}

\* C20 as stated (RefreshIfExpired): when the stored expiry is not past, no
\* exchange is made and the table is unchanged; when it is past and the
\* exchange succeeds, the account's row is replaced by the new access token,
\* refresh token and expiry; when the exchange fails, the table is unchanged.
C20_ExchangeReplaces ==
    [][\A u \in Users : \A r \in credsDb :
         MaintainsWith(u, r)
           => /\ ~(utcNow > r.ExpiresAt)
                   => (credLast'.exchange = "none" /\ credsDb' = credsDb)
              /\ (utcNow > r.ExpiresAt /\ credLast'.exchange = "ok")
                   => ReplacedBy(u, credLast'.data)
              /\ (utcNow > r.ExpiresAt
                    /\ credLast'.exchange \in {"error", "status400"})
                   => credsDb' = credsDb]_vars

\* C20 amended: when the stored expiry is not past, no exchange is made and
\* the table is unchanged; when it is past, the exchange succeeds and the
\* database executes the upsert, the account's row is replaced by the new
\* access token, refresh token and expiry and the routine returns nil; when
\* the exchange fails, or the upsert fails after a successful exchange, the
\* table is unchanged and the routine returns an error.
C20_RefreshReplaces ==
    [][\A u \in Users : \A r \in credsDb :
         MaintainsWith(u, r)
           => /\ ~(utcNow > r.ExpiresAt)
                   => (credLast'.exchange = "none" /\ credsDb' = credsDb)
              /\ (utcNow > r.ExpiresAt /\ credLast'.exchange = "ok"
                    /\ credLast'.outcome # "dbUpdateFailed")
                   => (ReplacedBy(u, credLast'.data) /\ credLast'.ret = "nil")
              /\ (utcNow > r.ExpiresAt
                    /\ \/ credLast'.exchange \in {"error", "status400"}
                       \/ credLast'.outcome = "dbUpdateFailed")
                   => (credsDb' = credsDb /\ credLast'.ret = "error")]_vars

\* C20 witness: with rows for both accounts, the expired token of u1 was
\* exchanged; the row of u1 holds the first pair Twitch issued and an expiry
\* two seconds after the refresh, the row of u2 is the authorized one
C20_Witness ==
    /\ credLast.outcome = "refreshed"
    /\ credLast.userID = "u1"
    /\ GetTwitchCredentials(credsDb, "u1")
         = {[UserID |-> "u1", AccessToken |-> Token("access", 1),
             RefreshToken |-> Token("refresh", 1),
             ExpiresAt |-> credLast.at + 2]}
    /\ \E r \in GetTwitchCredentials(credsDb, "u2") :
         r.AccessToken = Token("access", 0)

\* C21 (empty refresh token): a run of maintainUserToken that finds the
\* account's token expired and its refresh token empty returns an error
\* without sending an exchange request (Twitch issues nothing) and without
\* changing the table; the hub, the poller, the webhook endpoint and the
\* chat bot are as they were.
C21_EmptyRefreshToken ==
    [][\A u \in Users : \A r \in credsDb :
         (/\ MaintainsWith(u, r)
          /\ utcNow > r.ExpiresAt
          /\ r.RefreshToken = EmptyToken)
           => /\ credLast'.exchange = "none"
              /\ credLast'.ret = "error"
              /\ UNCHANGED <<credsDb, tokenGen>>
              /\ UNCHANGED <<hubVars, pollVars, twVars, chatVars>>]_vars

\* C21 witness: after the token of u2 was refreshed, the run for u1 found
\* the token expired and the refresh token empty and returned an error; the
\* row of u1 is the authorized one and Twitch has issued one pair only
C21_Witness ==
    /\ credLast.outcome = "emptyRefreshToken"
    /\ credLast.ret = "error"
    /\ credLast.userID = "u1"
    /\ \E r \in GetTwitchCredentials(credsDb, "u1") :
         /\ r.RefreshToken = EmptyToken
         /\ r.AccessToken = Token("access", 0)
         /\ credLast.at > r.ExpiresAt
    /\ \E r \in GetTwitchCredentials(credsDb, "u2") :
         r.AccessToken = Token("access", 1)
    /\ tokenGen = 1

HubNext ==
    \/ \E c \in Clients : ServeWs(c)
    \/ \E c \in Clients : ReadError(c)
    \/ \E c \in Clients : HubUnregister(c)
    \/ \E pr \in HubProducers : Submit(pr)
    \/ \E pr \in HubProducers : TestAccepted(pr)
    \/ \E c \in Clients, res \in WriteResults : WriteFrame(c, res)
    \/ \E c \in Clients : WriteClose(c)
    \/ \E c \in Clients : WriteOnClosed(c)
    \/ \E c \in Clients : PingFail(c)

\* the hub with writePump taken one channel operation at a time
PumpNext ==
    \/ \E c \in Clients : ServeWs(c)
    \/ \E c \in Clients : ReadError(c)
    \/ \E c \in Clients : HubUnregister(c)
    \/ \E pr \in HubProducers : SubmitUpTo(pr, PumpBroadcasts)
    \/ \E pr \in HubProducers : TestAccepted(pr)
    \/ \E c \in Clients, res \in {"ok", "nextWriter"} : PumpReceive(c, res)
    \/ \E c \in Clients : PumpLen(c)
    \/ \E c \in Clients : PumpCoalesce(c)
    \/ \E c \in Clients, res \in {"ok", "close"} : PumpFlush(c, res)
    \/ \E c \in Clients : WriteClose(c)
    \/ \E c \in Clients : PingFail(c)

(***************************************************************************)
(* internal/twitch: ScanAudioCommands, the command table built at startup   *)
(***************************************************************************)
\* number of directory entries below the media root
MaxFiles == 2

\* the byte of a character (file names are compared bytewise)
Byte(c) ==
    CASE c = "." -> 46 [] c = "3" -> 51 [] c = "4" -> 52 [] c = "H" -> 72
      [] c = "M" -> 77 [] c = "P" -> 80 [] c = "a" -> 97 [] c = "b" -> 98
      [] c = "e" -> 101 [] c = "g" -> 103 [] c = "h" -> 104 [] c = "i" -> 105
      [] c = "m" -> 109 [] c = "o" -> 111 [] c = "p" -> 112 [] c = "t" -> 116
      [] c = "v" -> 118 [] c = "w" -> 119 [] c = "x" -> 120

\* strings.ToLower
ToLower(s) ==
    [i \in 1..Len(s) |->
        CASE s[i] = "H" -> "h" [] s[i] = "M" -> "m" [] s[i] = "P" -> "p"
          [] OTHER -> s[i]]

\* filepath.Ext: the suffix that begins at the final dot, empty without a dot
Ext(path) ==
    LET dots == {i \in 1..Len(path) : path[i] = "."}
    IN  IF dots = {} THEN <<>>
        ELSE SubSeq(path, CHOOSE i \in dots : \A j \in dots : j <= i,
                    Len(path))

\* strings.TrimSuffix: s without the suffix when s ends with it, else s
TrimSuffix(s, suffix) ==
    IF /\ Len(s) >= Len(suffix)
       /\ SubSeq(s, Len(s) - Len(suffix) + 1, Len(s)) = suffix
    THEN SubSeq(s, 1, Len(s) - Len(suffix))
    ELSE s

\* the switch on ext; "" stands for the default branch (continue)
MediaType(ext) ==
    IF ext \in {<<".", "m", "p", "3">>, <<".", "w", "a", "v">>,
                <<".", "o", "g", "g">>}
    THEN "audio"
    ELSE IF ext \in {<<".", "m", "p", "4">>, <<".", "w", "e", "b", "m">>}
    THEN "video"
    ELSE ""

\* the folders map: folder name -> permission
Folders == {"everyone", "subscribers", "vips"}
FolderPermission(folderName) ==
    CASE folderName = "everyone" -> PermissionEveryone
      [] folderName = "subscribers" -> PermissionSubscriber
      [] folderName = "vips" -> PermissionVIP

\* the file names of the model
FileStems == {<<"h", "i">>, <<"H", "i">>, <<"a", ".", "b">>}
FileExts ==
    {<<".", "m", "p", "3">>, <<".", "M", "P", "3">>, <<".", "w", "a", "v">>,
     <<".", "o", "g", "g">>, <<".", "m", "p", "4">>,
     <<".", "w", "e", "b", "m">>, <<".", "t", "x", "t">>, <<>>}
FileNames == {stem \o ext : stem \in FileStems, ext \in FileExts}

\* a directory entry: the folder it is in, its name, and file.IsDir()
DirEntry(folder, name, isDir) ==
    [folder |-> folder, name |-> name, isDir |-> isDir]

\* bytewise order of two file names
RECURSIVE NameLess(_, _)
NameLess(a, b) ==
    IF a = <<>> THEN b # <<>>
    ELSE IF b = <<>> THEN FALSE
    ELSE IF Head(a) # Head(b) THEN Byte(Head(a)) < Byte(Head(b))
    ELSE NameLess(Tail(a), Tail(b))

\* os.ReadDir: the entries of a folder sorted by file name
RECURSIVE ReadDir(_)
ReadDir(entries) ==
    IF entries = {} THEN <<>>
    ELSE LET first == CHOOSE e \in entries :
                        \A o \in entries \ {e} : NameLess(e.name, o.name)
         IN  <<first>> \o ReadDir(entries \ {first})

\* the body of the loop over the files of one folder
ScanFile(cmds, folderName, file) ==
    LET filename == file.name
        ext == ToLower(Ext(filename))
        commandName == ToLower(TrimSuffix(filename, ext))
        mediaType == MediaType(ext)
    IN  IF file.isDir THEN cmds
        ELSE IF mediaType = "" THEN cmds
        ELSE IF commandName \in DOMAIN cmds THEN cmds
        ELSE cmds @@ (commandName :>
                        [Filename |-> <<folderName, "/">> \o filename,
                         Permission |-> FolderPermission(folderName),
                         MediaType |-> mediaType])

RECURSIVE ScanFolder(_, _, _)
ScanFolder(cmds, folderName, files) ==
    IF files = <<>> THEN cmds
    ELSE ScanFolder(ScanFile(cmds, folderName, Head(files)), folderName,
                    Tail(files))

\* the orders in which `range folders` may visit the three folders
FolderOrders ==
    {o \in [1..3 -> Folders] : \A i, j \in 1..3 : i # j => o[i] # o[j]}

RECURSIVE ScanFrom(_, _, _)
ScanFrom(cmds, entries, order) ==
    IF order = <<>> THEN cmds
    ELSE ScanFrom(ScanFolder(cmds, Head(order),
                             ReadDir({e \in entries :
                                        e.folder = Head(order)})),
                  entries, Tail(order))

\* ScanAudioCommands over the entries below baseDir, the folders visited in
\* the given order
ScanAudioCommands(entries, order) == ScanFrom(<<>>, entries, order)

ScanInit ==
    /\ fsFiles = {}
    /\ commands = <<>>
    /\ scanned = FALSE

\* the operator puts a file or a directory into a command folder
CreateEntry(folder, name, isDir) ==
    /\ ~scanned
    /\ Cardinality(fsFiles) < MaxFiles
    /\ \A e \in fsFiles : ~(e.folder = folder /\ e.name = name)
    /\ fsFiles' = fsFiles \cup {DirEntry(folder, name, isDir)}
    /\ UNCHANGED <<commands, scanned>>
    /\ UNCHANGED <<hubVars, pollVars, twVars, chatVars, permLast, credVars>>

\* main: cmdMap, err := twitch.ScanAudioCommands(...), once at startup
MainScan(order) ==
    /\ ~scanned
    /\ commands' = ScanAudioCommands(fsFiles, order)
    /\ scanned' = TRUE
    /\ UNCHANGED fsFiles
    /\ UNCHANGED <<hubVars, pollVars, twVars, chatVars, permLast, credVars>>

ScanNext ==
    \/ \E folder \in Folders, name \in FileNames, isDir \in BOOLEAN :
         CreateEntry(folder, name, isDir)
    \/ \E order \in FolderOrders : MainScan(order)

\* the extensions the command table recognises, in lower case
AudioExtensions == {<<".", "m", "p", "3">>, <<".", "w", "a", "v">>,
                    <<".", "o", "g", "g">>}
VideoExtensions == {<<".", "m", "p", "4">>, <<".", "w", "e", "b", "m">>}

\* a regular file whose extension, case ignored, is recognised
IsMediaFile(e) ==
    /\ ~e.isDir
    /\ ToLower(Ext(e.name)) \in AudioExtensions \cup VideoExtensions

\* the lowercase file name minus its extension
EntryKey(e) == ToLower(SubSeq(e.name, 1, Len(e.name) - Len(Ext(e.name))))

\* the entry a media file stands for
EntryOf(e) ==
    [Filename |-> <<e.folder, "/">> \o e.name,
     Permission |-> FolderPermission(e.folder),
     MediaType |-> IF ToLower(Ext(e.name)) \in AudioExtensions
                   THEN "audio" ELSE "video"]

\* C29 (command table construction): after the scan every media file of a
\* tier folder has an entry under its lowercase name without the extension,
\* which carries the tier of the folder and the media kind of the extension
\* (when no other media file has the same key), and every entry of the table
\* stands for a media file, so that other files yield none.
C29_CommandTable ==
    scanned =>
      /\ \A e \in fsFiles :
           IsMediaFile(e) =>
             /\ EntryKey(e) \in DOMAIN commands
             /\ (\A o \in fsFiles \ {e} :
                    IsMediaFile(o) => EntryKey(o) # EntryKey(e))
                  => commands[EntryKey(e)] = EntryOf(e)
      /\ \A k \in DOMAIN commands :
           \E e \in fsFiles :
             IsMediaFile(e) /\ EntryKey(e) = k /\ commands[k] = EntryOf(e)

\* C36 (the command table is a function of the directory layout): the table
\* a scan returns is the table every scan of the same layout returns, so a
\* command name found under several tier folders has the same entry, and
\* with it the same required tier, on every startup.
C36_ScanDeterministic ==
    scanned =>
      \A order \in FolderOrders :
        ScanAudioCommands(fsFiles, order) = commands

\* the hub with the sends to h.register and the reads that a closed
\* connection ends as steps of their own
HubFairNext ==
    \/ \E c \in Clients : ServeWsSend(c)
    \/ \E c \in Clients : HubRegister(c)
    \/ \E c \in Clients : ReadError(c)
    \/ \E c \in Clients : ReadClosed(c)
    \/ \E c \in Clients : HubUnregister(c)
    \/ \E pr \in HubProducers : Submit(pr)
    \/ \E pr \in HubProducers : TestAccepted(pr)
    \/ \E c \in Clients, res \in WriteResults : WriteFrame(c, res)
    \/ \E c \in Clients : WriteClose(c)
    \/ \E c \in Clients : WriteOnClosed(c)
    \/ \E c \in Clients : PingFail(c)

Init ==
    /\ HubInit /\ PollInit /\ TwitchInit /\ ChatInit /\ PermInit /\ CredInit
    /\ ScanInit

SpecHub == Init /\ [][HubNext]_vars

SpecPump == Init /\ [][PumpNext]_vars

\* Run keeps serving each of its three channels, and a read on a closed
\* connection returns
SpecHubFair ==
    /\ Init
    /\ [][HubFairNext]_vars
    /\ \A c \in Clients : /\ WF_vars(HubRegister(c))
                          /\ WF_vars(HubUnregister(c))
                          /\ WF_vars(ReadClosed(c))
    /\ \A pr \in HubProducers : WF_vars(TestAccepted(pr))

\* in addition every writePump goes on with its select while a case of it
\* is ready
SpecHubDrain ==
    /\ SpecHubFair
    /\ \A c \in Clients : /\ WF_vars(\E res \in WriteResults :
                                      WriteFrame(c, res))
                          /\ WF_vars(WriteClose(c))
                          /\ WF_vars(WriteOnClosed(c))

SpecPoll == Init /\ [][PollNext]_vars

\* the ticker of startPolling fires again and again
SpecPollFair ==
    /\ Init
    /\ [][PollNext]_vars
    /\ WF_vars(\E dbOk \in BOOLEAN, apiOk \in BOOLEAN : PollFetch(dbOk, apiOk))

SpecPollLoss == Init /\ [][PollLossNext]_vars

SpecSub == Init /\ [][SubNext]_vars

SpecWebhook == Init /\ [][WebhookNext]_vars

SpecChat == Init /\ [][ChatNext]_vars

SpecSay == Init /\ [][SayNext]_vars

SpecPerm == Init /\ [][PermNext]_vars

SpecCred == Init /\ [][CredNext]_vars

SpecScan == Init /\ [][ScanNext]_vars

=============================================================================
